---- MODULE Spec2Model ----
(***************************************************************************)
(* A model of the dccon-exporter server: the single-worker job queue of    *)
(* jobQueue.js (src/unnamed/part_001), the package fetcher of              *)
(* dcconDownloader.js that it drives, and the helpers of utils.js.         *)
(*                                                                         *)
(* Conventions.                                                            *)
(*  - A JavaScript string that the code inspects character by character    *)
(*    (a URL, a title) is a sequence of one-character strings.             *)
(*  - null / undefined are the empty sequence Undefined; a present value   *)
(*    of an optional field is the one-element sequence <<v>>.              *)
(*  - Timestamps are integer milliseconds (Date.now()); toISOString() and  *)
(*    new Date(iso).getTime() are inverse on them.                         *)
(*  - progress is kept in ten-thousandths (0.01 is 100, 1 is 10000).       *)
(*  - nanoid() is a fresh identifier: the creation counter nextId.         *)
(***************************************************************************)
EXTENDS Integers, Sequences, FiniteSets, TLC

VARIABLES
    jobs,           \* part_001:7   Map jobId -> job record
    queue,          \* part_001:8   pending job IDs, FIFO
    sessionJobs,    \* part_001:9   Map sessionId -> order list of job IDs
    processingJob,  \* part_001:14  the running marker (NoJob when null)
    scheduled,      \* number of setImmediate(processQueue) callbacks pending
    run,            \* the suspended runJob/downloadDcConPackage continuation
    now,            \* Date.now()
    nextId,         \* creation counter standing for nanoid()
    call            \* a call of a helper function: its name, arguments, result

vars == <<jobs, queue, sessionJobs, processingJob, scheduled, run, now, nextId, call>>

----------------------------------------------------------------------------
(* Bounds of the model.                                                    *)

\* createJob calls accepted in the general specification
MaxJobs == 2
\* createJob calls accepted in the retention-cap specification
MaxJobsCap == 17
\* createJob calls accepted in the fetcher specification
MaxFetchJobs == 2
\* createJob calls accepted in the worker specification
MaxLiveJobs == 3
\* the byte counts given to formatBytes run from 0 to this
MaxBytes == 12000
\* the resize values given to normalizeResizeOption run, in tenths, up to this
MaxResizeTenths == 5200
\* clock advances

----------------------------------------------------------------------------
(* Values.                                                                 *)

Undefined == <<>>
Some(v) == <<v>>
IsPresent(o) == o # <<>>
Get(o) == o[1]

NoJob == 0

MAX_STORED_JOBS_PER_SESSION == 15
JOB_TTL_MS == 1000 * 60 * 30

Max(a, b) == IF a >= b THEN a ELSE b
Min(a, b) == IF a <= b THEN a ELSE b

Digits == {"0", "1", "2", "3", "4", "5", "6", "7", "8", "9"}
Letters ==
    {"a", "b", "c", "d", "e", "f", "g", "h", "i", "j", "k", "l", "m",
     "n", "o", "p", "q", "r", "s", "t", "u", "v", "w", "x", "y", "z",
     "A", "B", "C", "D", "E", "F", "G", "H", "I", "J", "K", "L", "M",
     "N", "O", "P", "Q", "R", "S", "T", "U", "V", "W", "X", "Y", "Z"}
Whitespace == {" ", "\t", "\n", "\r"}

\* String.prototype.trim on a character sequence
RECURSIVE TrimLeft(_)
TrimLeft(s) == IF s # <<>> /\ s[1] \in Whitespace THEN TrimLeft(Tail(s)) ELSE s

RECURSIVE TrimRight(_)
TrimRight(s) ==
    IF s # <<>> /\ s[Len(s)] \in Whitespace
    THEN TrimRight(SubSeq(s, 1, Len(s) - 1))
    ELSE s

Trim(s) == TrimRight(TrimLeft(s))

\* s.startsWith(p) at offset i (1-based)
StartsWithAt(s, p, i) ==
    /\ i >= 1
    /\ i + Len(p) - 1 <= Len(s)
    /\ \A k \in 1..Len(p) : s[i + k - 1] = p[k]

\* the /i flag: compare letters regardless of case
ToLower(c) ==
    CASE c = "A" -> "a" [] c = "B" -> "b" [] c = "C" -> "c" [] c = "D" -> "d"
      [] c = "E" -> "e" [] c = "F" -> "f" [] c = "G" -> "g" [] c = "H" -> "h"
      [] c = "I" -> "i" [] c = "J" -> "j" [] c = "K" -> "k" [] c = "L" -> "l"
      [] c = "M" -> "m" [] c = "N" -> "n" [] c = "O" -> "o" [] c = "P" -> "p"
      [] c = "Q" -> "q" [] c = "R" -> "r" [] c = "S" -> "s" [] c = "T" -> "t"
      [] c = "U" -> "u" [] c = "V" -> "v" [] c = "W" -> "w" [] c = "X" -> "x"
      [] c = "Y" -> "y" [] c = "Z" -> "z" [] OTHER -> c

LowerSeq(s) == [i \in 1..Len(s) |-> ToLower(s[i])]

\* length of the run of decimal digits of s that starts at i
RECURSIVE DigitRun(_, _)
DigitRun(s, i) ==
    IF i <= Len(s) /\ s[i] \in Digits THEN 1 + DigitRun(s, i + 1) ELSE 0

\* index of the first occurrence of character c in s at or after i, 0 if none
RECURSIVE IndexOfChar(_, _, _)
IndexOfChar(s, c, i) ==
    IF i > Len(s) THEN 0
    ELSE IF s[i] = c THEN i
    ELSE IndexOfChar(s, c, i + 1)

\* s.split(c)
RECURSIVE Split(_, _)
Split(s, c) ==
    LET k == IndexOfChar(s, c, 1) IN
    IF k = 0 THEN <<s>>
    ELSE <<SubSeq(s, 1, k - 1)>> \o Split(SubSeq(s, k + 1, Len(s)), c)

\* /^[0-9]{n,}$/.test(s)
AllDigitsAtLeast(s, n) == Len(s) >= n /\ \A i \in 1..Len(s) : s[i] \in Digits

----------------------------------------------------------------------------
(* utils.js                                                                *)

\* the alternatives of /(?:package_(?:idx|id)|idx|no)=([0-9]+)/i, in order
QueryMatchKeys ==
    << <<"p", "a", "c", "k", "a", "g", "e", "_", "i", "d", "x">>,
       <<"p", "a", "c", "k", "a", "g", "e", "_", "i", "d">>,
       <<"i", "d", "x">>,
       <<"n", "o">> >>

\* the regular expression matches at i with alternative k
QueryMatchAt(s, i, k) ==
    /\ StartsWithAt(LowerSeq(s), QueryMatchKeys[k] \o <<"=">>, i)
    /\ DigitRun(s, i + Len(QueryMatchKeys[k]) + 1) >= 1

\* trimmed.match(/(?:package_(?:idx|id)|idx|no)=([0-9]+)/i): capture 1 of the
\* leftmost match, Undefined when there is none
QueryMatch(s) ==
    LET hits == {h \in (1..Len(s)) \X (1..Len(QueryMatchKeys)) : QueryMatchAt(s, h[1], h[2])}
    IN  IF hits = {} THEN Undefined
        ELSE LET i == CHOOSE i \in {h[1] : h \in hits} : \A h \in hits : i <= h[1]
                 k == CHOOSE k \in 1..Len(QueryMatchKeys) :
                        /\ <<i, k>> \in hits
                        /\ \A k2 \in 1..Len(QueryMatchKeys) : <<i, k2>> \in hits => k <= k2
                 from == i + Len(QueryMatchKeys[k]) + 1
             IN  Some(SubSeq(s, from, from + DigitRun(s, from) - 1))

\* index of the first character of s at or after i that is in set, Len(s)+1 if none
RECURSIVE FirstIndexIn(_, _, _)
FirstIndexIn(s, set, i) ==
    IF i > Len(s) THEN Len(s) + 1
    ELSE IF s[i] \in set THEN i
    ELSE FirstIndexIn(s, set, i + 1)

HttpsPrefix == <<"h", "t", "t", "p", "s", ":", "/", "/">>

\* code points that make the host of a special-scheme URL invalid
ForbiddenHostChars ==
    Whitespace \cup {"#", "%", "/", ":", "<", ">", "?", "@", "[", "\\", "]", "^", "|"}

\* new URL(trimmed.startsWith('http') ? trimmed : `https://${trimmed}`) for
\* inputs of the shape [http(s)://]host[/path][?query][#fragment] without
\* percent-escapes, user info, port or dot segments: ok is FALSE when the
\* constructor throws
ParseUrl(trimmed) ==
    LET text == IF StartsWithAt(trimmed, <<"h", "t", "t", "p">>, 1)
                THEN trimmed ELSE HttpsPrefix \o trimmed
        skip == IF StartsWithAt(text, HttpsPrefix, 1) THEN Len(HttpsPrefix)
                ELSE IF StartsWithAt(text, <<"h", "t", "t", "p", ":", "/", "/">>, 1) THEN 7
                ELSE 0
        rest == SubSeq(text, skip + 1, Len(text))
        hostEnd == FirstIndexIn(rest, {"/", "?", "#"}, 1)
        host == SubSeq(rest, 1, hostEnd - 1)
        pathEnd == FirstIndexIn(rest, {"?", "#"}, hostEnd)
        hashAt == FirstIndexIn(rest, {"#"}, pathEnd)
        valid == /\ skip > 0
                 /\ host # <<>>
                 /\ \A i \in 1..Len(host) : host[i] \notin ForbiddenHostChars
    IN  [ok |-> valid,
         pathname |-> IF valid THEN SubSeq(rest, hostEnd, pathEnd - 1) ELSE <<>>,
         search |-> IF valid /\ pathEnd < hashAt
                    THEN SubSeq(rest, pathEnd + 1, hashAt - 1) ELSE <<>>,
         hash |-> IF valid /\ hashAt < Len(rest)
                  THEN SubSeq(rest, hashAt, Len(rest)) ELSE <<>>]

\* asUrl.searchParams.get(key): the value of the first pair named key
SearchParamsGet(search, key) ==
    LET pairs == Split(search, "&")
        name(p) == SubSeq(p, 1, FirstIndexIn(p, {"="}, 1) - 1)
        value(p) == SubSeq(p, FirstIndexIn(p, {"="}, 1) + 1, Len(p))
        found == {i \in 1..Len(pairs) : pairs[i] # <<>> /\ name(pairs[i]) = key}
    IN  IF found = {} THEN Undefined
        ELSE Some(value(pairs[CHOOSE i \in found : \A j \in found : i <= j]))

SearchParamKeys ==
    << <<"p", "a", "c", "k", "a", "g", "e", "_", "i", "d", "x">>,
       <<"p", "a", "c", "k", "a", "g", "e", "_", "i", "d">>,
       <<"i", "d", "x">>,
       <<"n", "o">>,
       <<"i", "d">> >>

\* the loop of lines 29-34 from key k on: the first listed parameter whose
\* value is all digits
RECURSIVE ParamMatch(_, _)
ParamMatch(search, k) ==
    IF k > Len(SearchParamKeys) THEN Undefined
    ELSE LET value == SearchParamsGet(search, SearchParamKeys[k]) IN
         IF IsPresent(value) /\ AllDigitsAtLeast(Get(value), 1) THEN value
         ELSE ParamMatch(search, k + 1)

\* the loop of lines 36-41 from segment i down: the last path segment of
\* three or more digits
RECURSIVE SegmentMatch(_, _)
SegmentMatch(segments, i) ==
    IF i = 0 THEN Undefined
    ELSE IF AllDigitsAtLeast(segments[i], 3) THEN Some(segments[i])
    ELSE SegmentMatch(segments, i - 1)

\* the rules as they would be with the query parameters before the fragment
UrlRules_ParamsFirst(asUrl, hash, param) ==
    IF ~asUrl.ok THEN Undefined
    ELSE IF IsPresent(param) THEN param
    ELSE IF AllDigitsAtLeast(hash, 3) THEN Some(hash)
    ELSE SegmentMatch(Split(asUrl.pathname, "/"), Len(Split(asUrl.pathname, "/")))

\* lines 25-41 of extractPackageId on the parsed URL: fragment, then query
\* parameters, then path
UrlRules(asUrl, hash, param) ==
    IF ~asUrl.ok THEN Undefined
    ELSE IF AllDigitsAtLeast(hash, 3) THEN Some(hash)
    ELSE IF IsPresent(param) THEN param
    ELSE SegmentMatch(Split(asUrl.pathname, "/"), Len(Split(asUrl.pathname, "/")))

\* asUrl.hash?.replace(/^#/, '')
StripHash(hash) == IF hash # <<>> /\ hash[1] = "#" THEN Tail(hash) ELSE hash

UrlMatchOf(asUrl) == UrlRules(asUrl, StripHash(asUrl.hash), ParamMatch(asUrl.search, 1))

\* the try block of extractPackageId (lines 21-44)
UrlMatch(trimmed) == UrlMatchOf(ParseUrl(trimmed))

\* trimmed.match(/([0-9]{3,})(?![a-zA-Z])/): capture 1 of the leftmost match.
\* At a start i with a run of n digits the greedy match takes all n and, when a
\* letter follows, gives one digit back (the next character is then a digit).
NumericFallbackAt(s, i) ==
    LET n == DigitRun(s, i)
        letterNext == i + n <= Len(s) /\ s[i + n] \in Letters
    IN  IF n >= 3 /\ ~letterNext THEN n
        ELSE IF n >= 4 THEN n - 1
        ELSE 0

NumericFallback(s) ==
    LET hits == {i \in 1..Len(s) : NumericFallbackAt(s, i) > 0}
    IN  IF hits = {} THEN Undefined
        ELSE LET i == CHOOSE i \in hits : \A j \in hits : i <= j
             IN  Some(SubSeq(s, i, i + NumericFallbackAt(s, i) - 1))

\* the first of the three results that is present
FirstPresent(a, b, c) == IF IsPresent(a) THEN a ELSE IF IsPresent(b) THEN b ELSE c

ExtractTrimmed(trimmed) ==
    IF trimmed = <<>> THEN Undefined
    ELSE FirstPresent(QueryMatch(trimmed), UrlMatch(trimmed), NumericFallback(trimmed))

extractPackageId(input) == ExtractTrimmed(Trim(input))

FilenameHostileChars == {"\\", "/", ":", "*", "?", "\"", "<", ">", "|"}

\* s.replace(/\s+/g, ' ') after every hostile character became a space
RECURSIVE CollapseWhitespace(_)
CollapseWhitespace(s) ==
    IF s = <<>> THEN <<>>
    ELSE IF s[1] \in Whitespace
         THEN <<" ">> \o CollapseWhitespace(TrimLeft(s))
         ELSE <<s[1]>> \o CollapseWhitespace(Tail(s))

\* sanitizeFilename(name, fallback) with name a string or Undefined
sanitizeFilename(name, fallback) ==
    IF ~IsPresent(name) \/ Get(name) = <<>> THEN fallback
    ELSE LET raw == Get(name)
             spaced == [i \in 1..Len(raw) |->
                          IF raw[i] \in FilenameHostileChars THEN " " ELSE raw[i]]
             cleaned == Trim(CollapseWhitespace(spaced))
         IN  IF cleaned = <<>> THEN fallback ELSE cleaned

Untitled == <<"u", "n", "t", "i", "t", "l", "e", "d">>
Dccon == <<"d", "c", "c", "o", "n">>

\* buildArchiveFilename(title, packageId), both a string or Undefined
buildArchiveFilename(title, packageId) ==
    LET safeTitle == sanitizeFilename(title, Untitled)
        suffix == IF IsPresent(packageId) /\ Get(packageId) # <<>>
                  THEN <<"_">> \o Get(packageId) ELSE <<>>
    IN  (IF safeTitle # <<>> THEN safeTitle ELSE Dccon) \o suffix \o <<".", "z", "i", "p">>

DigitChar(d) == <<"0", "1", "2", "3", "4", "5", "6", "7", "8", "9">>[d + 1]

\* String(n) for a natural number n
RECURSIVE NatToString(_)
NatToString(n) ==
    IF n < 10 THEN <<DigitChar(n)>>
    ELSE NatToString(n \div 10) \o <<DigitChar(n % 10)>>

\* s.padStart(width, '0')
RECURSIVE PadStartZero(_, _)
PadStartZero(s, width) ==
    IF Len(s) >= width THEN s ELSE PadStartZero(<<"0">> \o s, width)

RECURSIVE Pow(_, _)
Pow(b, e) == IF e = 0 THEN 1 ELSE b * Pow(b, e - 1)

Units == << <<"B">>, <<"K", "B">>, <<"M", "B">>, <<"G", "B">> >>

\* the while loop of formatBytes: how many times size is divided by 1024
RECURSIVE UnitIndex(_, _)
UnitIndex(bytes, unitIndex) ==
    IF unitIndex < Len(Units) - 1 /\ bytes >= Pow(1024, unitIndex + 1)
    THEN UnitIndex(bytes, unitIndex + 1)
    ELSE unitIndex

\* (num/den).toFixed(digits): the nearest multiple of 10^-digits, ties upward
\* (the fraction is taken of the remainder, a common factor 1024 cancelled,
\* which keeps the products within the integers)
ToFixed(num, den, digits) ==
    LET k == IF (num % den) % 1024 = 0 /\ den % 1024 = 0 THEN 1024 ELSE 1
        r == (num % den) \div k
        d == den \div k
        scaled == (num \div den) * Pow(10, digits) + (2 * r * Pow(10, digits) + d) \div (2 * d)
        whole == scaled \div Pow(10, digits)
        frac == scaled % Pow(10, digits)
    IN  NatToString(whole) \o <<".">> \o PadStartZero(NatToString(frac), digits)

\* formatBytes as it would be with two decimals throughout
formatBytes_TwoDecimals(bytes) ==
    LET unitIndex == UnitIndex(bytes, 0)
        den == Pow(1024, unitIndex)
        text == IF bytes % den = 0 THEN NatToString(bytes \div den)
                ELSE ToFixed(bytes, den, 2)
    IN  text \o <<" ">> \o Units[unitIndex + 1]

\* formatBytes(bytes) for a byte count bytes >= 0
formatBytes(bytes) ==
    LET unitIndex == UnitIndex(bytes, 0)
        den == Pow(1024, unitIndex)
        text == IF bytes % den = 0 THEN NatToString(bytes \div den)
                ELSE ToFixed(bytes, den, IF bytes \div den >= 10 THEN 1 ELSE 2)
    IN  text \o <<" ">> \o Units[unitIndex + 1]

----------------------------------------------------------------------------
(* jobQueue.js: the registry                                               *)

\* Number(value) of a request's resize field. A raw value is [t, v]: t is
\* "undefined", "null", "nan" (a non-numeric string), "infinity" or "number"
\* (also a numeric string) and v is the number in tenths.
ToNumber(value) ==
    CASE value.t = "number" -> [finite |-> TRUE, nan |-> FALSE, tenths |-> value.v]
      [] value.t = "null" -> [finite |-> TRUE, nan |-> FALSE, tenths |-> 0]
      [] value.t = "infinity" -> [finite |-> FALSE, nan |-> FALSE, tenths |-> 0]
      [] OTHER -> [finite |-> FALSE, nan |-> TRUE, tenths |-> 0]

\* the rounding as it would be with Math.trunc
MathRound_Truncate(tenths) == tenths \div 10

\* Math.round of a number given in tenths: floor(x + 0.5)
MathRound(tenths) == (tenths + 5) \div 10

\* normalizeResizeOption(value): Undefined for null, else <<pixels>>
normalizeResizeOption(value) ==
    LET numeric == ToNumber(value) IN
    IF ~numeric.finite \/ numeric.tenths <= 0 THEN Undefined
    ELSE Some(Min(512, Max(16, MathRound(numeric.tenths))))

\* assertSessionId(sessionId): Undefined when it throws the 400 error, else
\* <<trimmed>>. A sessionId is a string as a character sequence, or Undefined.
assertSessionId(sessionId) ==
    IF ~IsPresent(sessionId) \/ Get(sessionId) = <<>> \/ Trim(Get(sessionId)) = <<>>
    THEN Undefined
    ELSE Some(Trim(Get(sessionId)))

\* Map.prototype.delete
MapDelete(map, key) == [k \in DOMAIN map \ {key} |-> map[k]]

\* Map.prototype.set
MapSet(map, key, value) == [k \in DOMAIN map \cup {key} |-> IF k = key THEN value ELSE map[k]]

\* Array.prototype.indexOf, 1-based, 0 for -1
IndexOf(list, x) ==
    IF \E i \in 1..Len(list) : list[i] = x
    THEN CHOOSE i \in 1..Len(list) : list[i] = x /\ \A j \in 1..(i - 1) : list[j] # x
    ELSE 0

\* list.splice(i, 1)
SpliceOut(list, i) == SubSeq(list, 1, i - 1) \o SubSeq(list, i + 1, Len(list))

\* removeJob as it would be without the loop over the queue
ScrubQueue_None(q, jobId) == q

\* the while loop of removeJob: every occurrence of jobId leaves the queue
RECURSIVE ScrubQueue(_, _)
ScrubQueue(q, jobId) ==
    IF IndexOf(q, jobId) = 0 THEN q
    ELSE ScrubQueue(SpliceOut(q, IndexOf(q, jobId)), jobId)

\* The server's state is handled as one record st with the fields jobs, queue,
\* sessionJobs, processingJob, scheduled and run. removeJob returns the state
\* after the call and the boolean it returns.

\* the removal as it would be without the splice of the order list
DeleteJob_KeepOrder(st, jobId) ==
    [st |-> [st EXCEPT !.jobs = MapDelete(st.jobs, jobId),
                       !.queue = ScrubQueue(st.queue, jobId)],
     removed |-> TRUE]

\* lines 54-73 of removeJob: the job leaves the map, its session's order list
\* (the session entry with it when the list empties) and the queue
DeleteJob(st, jobId) ==
    LET job == st.jobs[jobId]
        sid == job.sessionId
        order == IF sid \in DOMAIN st.sessionJobs THEN st.sessionJobs[sid] ELSE <<>>
        idx == IndexOf(order, jobId)
        spliced == IF idx # 0 THEN SpliceOut(order, idx) ELSE order
        sessions == IF sid \notin DOMAIN st.sessionJobs THEN st.sessionJobs
                    ELSE IF spliced = <<>> THEN MapDelete(st.sessionJobs, sid)
                    ELSE MapSet(st.sessionJobs, sid, spliced)
    IN  [st |-> [st EXCEPT !.jobs = MapDelete(st.jobs, jobId),
                           !.queue = ScrubQueue(st.queue, jobId),
                           !.sessionJobs = sessions],
         removed |-> TRUE]

\* removeJob as it would be without the test for a processing job
removeJob_NoStatusCheck(st, jobId) ==
    IF jobId \notin DOMAIN st.jobs THEN [st |-> st, removed |-> FALSE]
    ELSE DeleteJob(st, jobId)

removeJob(st, jobId) ==
    IF jobId \notin DOMAIN st.jobs THEN [st |-> st, removed |-> FALSE]
    ELSE IF st.jobs[jobId].status = "processing" THEN [st |-> st, removed |-> FALSE]
    ELSE DeleteJob(st, jobId)

\* the test as it would be with >= in place of >
IsExpired_AtTtl(job, t) ==
    /\ job.status \notin {"processing", "queued"}
    /\ t - job.updatedAt >= JOB_TTL_MS

\* the expiry test as it would be if only completed jobs expired
IsExpired_CompletedOnly(job, t) ==
    /\ job.status = "completed"
    /\ t - job.updatedAt > JOB_TTL_MS

\* the test of cleanupExpiredJobs on one job at time t
IsExpired(job, t) ==
    /\ job.status \notin {"processing", "queued"}
    /\ t - job.updatedAt > JOB_TTL_MS

\* cleanupExpiredJobs(): the Map is walked in insertion order, which is the
\* order of the IDs; ids is the part of the walk still to do
RECURSIVE CleanupFrom(_, _, _)
CleanupFrom(st, ids, t) ==
    IF ids = {} THEN st
    ELSE LET jobId == CHOOSE i \in ids : \A j \in ids : i <= j
             after == IF jobId \in DOMAIN st.jobs /\ IsExpired(st.jobs[jobId], t)
                      THEN removeJob(st, jobId).st
                      ELSE st
         IN  CleanupFrom(after, ids \ {jobId}, t)

cleanupExpiredJobs(st, t) == CleanupFrom(st, DOMAIN st.jobs, t)

\* trimSessionJobs as it would be if it evicted from the end of the order list
trimSessionJobs_Newest(st, sessionId) ==
    IF sessionId \notin DOMAIN st.sessionJobs THEN st
    ELSE IF Len(st.sessionJobs[sessionId]) > MAX_STORED_JOBS_PER_SESSION
    THEN removeJob(st, st.sessionJobs[sessionId][Len(st.sessionJobs[sessionId])]).st
    ELSE st

\* trimSessionJobs as it would be with an if in place of the while
trimSessionJobs_Once(st, sessionId) ==
    IF sessionId \notin DOMAIN st.sessionJobs THEN st
    ELSE IF Len(st.sessionJobs[sessionId]) > MAX_STORED_JOBS_PER_SESSION
    THEN removeJob(st, st.sessionJobs[sessionId][1]).st
    ELSE st

\* trimSessionJobs(sessionId)
RECURSIVE trimSessionJobs(_, _)
trimSessionJobs(st, sessionId) ==
    IF sessionId \notin DOMAIN st.sessionJobs THEN st
    ELSE LET order == st.sessionJobs[sessionId] IN
         IF Len(order) > MAX_STORED_JOBS_PER_SESSION
         THEN LET r == removeJob(st, order[1]) IN
              IF r.removed THEN trimSessionJobs(r.st, sessionId) ELSE st
         ELSE st

----------------------------------------------------------------------------
(* The source site, as far as the fetcher sees it.  Short strings that the *)
(* code only compares (an extension, a MIME type, an item key) are TLA+    *)
(* strings, "" standing for a missing or empty one (both are falsy).       *)

Pkg123 == <<"1", "2", "3">>

\* the JSON body of POST /index/package_detail for a package ID
SiteDetail(packageId) ==
    IF packageId = Pkg123
    THEN [info |-> Some([title |-> Some(<<"M", "y", ":", "P", "*">>)]),
          detail |-> << [idx |-> "i1", package_idx |-> "123", title |-> Some(<<"a", "/", "b">>),
                         sort |-> [t |-> "number", v |-> 10], ext |-> "png", path |-> "p1"],
                        [idx |-> "i2", package_idx |-> "123", title |-> Undefined,
                         sort |-> [t |-> "undefined", v |-> 0], ext |-> "gif", path |-> "p2"] >>]
    ELSE IF packageId = <<"5", "5", "5">>
    THEN [info |-> Some([title |-> Some(<<"f", "i", "v", "e">>)]),
          detail |-> [k \in 1..5 |->
                        [idx |-> <<"k1", "k2", "k3", "k4", "k5">>[k], package_idx |-> "555",
                         title |-> Some(<<"t">>), sort |-> [t |-> "number", v |-> 10 * (6 - k)],
                         ext |-> "gif", path |-> IF k = 1 THEN "p4" ELSE "p2"]]]
    ELSE IF packageId = <<"9", "0", "0">>
    THEN [info |-> Some([title |-> Some(<<"e">>)]), detail |-> <<>>]
    ELSE [info |-> Undefined,
          detail |-> << [idx |-> "i3", package_idx |-> "45", title |-> Some(<<"c">>),
                         sort |-> [t |-> "number", v |-> 70], ext |-> "JPG", path |-> "p3"] >>]

\* GET dccon.php?no=path: the picture's real format, the content-type header
\* ("" when the response has none) and the body's length
SiteImage(path) ==
    CASE path = "p1" -> [format |-> "png", contentType |-> "image/png", bytes |-> 1536]
      [] path = "p2" -> [format |-> "gif", contentType |-> "image/gif", bytes |-> 2048]
      [] path = "p4" -> [format |-> "webp", contentType |-> "image/webp", bytes |-> 900]
      [] OTHER -> [format |-> "jpeg", contentType |-> "", bytes |-> 700]

\* String.prototype.toLowerCase on the short strings of the model
ToLowerCase(w) ==
    CASE w = "JPG" -> "jpg" [] w = "PNG" -> "png" [] w = "JPEG" -> "jpeg"
      [] w = "WEBP" -> "webp" [] w = "GIF" -> "gif" [] OTHER -> w

----------------------------------------------------------------------------
(* dcconDownloader.js                                                      *)

PREVIEW_COUNT == 4
RESIZABLE_FORMATS == {"png", "jpeg", "jpg", "webp"}

\* MIME_BY_FORMAT[format], "" when the key is absent
MIME_BY_FORMAT(format) ==
    CASE format = "png" -> "image/png"
      [] format = "jpeg" -> "image/jpeg"
      [] format = "jpg" -> "image/jpeg"
      [] format = "webp" -> "image/webp"
      [] OTHER -> ""

canResize(ext, mimeType) ==
    IF ToLowerCase(ext) \in RESIZABLE_FORMATS THEN TRUE
    ELSE IF mimeType = "" THEN FALSE
    ELSE ToLowerCase(mimeType) \in {MIME_BY_FORMAT(f) : f \in RESIZABLE_FORMATS}

\* a || b on short strings
Or(a, b) == IF a # "" THEN a ELSE b

\* A buffer is [path, resize]: the bytes served at path, resized to a square
\* of resize pixels (0: as served).
BufferLength(buffer) ==
    IF buffer.resize = 0 THEN SiteImage(buffer.path).bytes ELSE buffer.resize * 4

\* applyResize when no resize is attempted (line 35) or sharp throws (line 60)
Unresized(buffer, ext, mimeType) ==
    [buffer |-> buffer, ext |-> ext, mimeType |-> mimeType, resized |-> FALSE]

\* applyResize when sharp succeeds (lines 47-57); info.format is the format of
\* the picture
Resized(buffer, ext, mimeType, size) ==
    LET format == ToLowerCase(Or(SiteImage(buffer.path).format, ext))
        normalizedFormat == IF format = "jpeg" THEN "jpg" ELSE format
    IN  [buffer |-> [buffer EXCEPT !.resize = size],
         ext |-> Or(Or(normalizedFormat, ext), "png"),
         mimeType |-> Or(Or(MIME_BY_FORMAT(normalizedFormat), mimeType), "image/png"),
         resized |-> TRUE]

\* the test of line 34 as it would be without canResize
ResizeAttempted_AnyFormat(ext, mimeType, size) == IsPresent(size)

\* applyResize awaits sharp: a size was asked for and the format is resizable
ResizeAttempted(ext, mimeType, size) == IsPresent(size) /\ canResize(ext, mimeType)

\* Number(item.sort) || index + 1
ItemSort(item, index) ==
    LET n == ToNumber(item.sort) IN
    IF n.finite /\ n.tenths # 0 THEN n.tenths \div 10 ELSE index + 1

\* the record pushed on items (lines 222-233)
BuildItem(item, index, mimeType, processed) ==
    [idx |-> item.idx,
     packageIdx |-> item.package_idx,
     title |-> item.title,
     sort |-> ItemSort(item, index),
     ext |-> Or(Or(processed.ext, item.ext), "png"),
     path |-> item.path,
     buffer |-> processed.buffer,
     mimeType |-> Or(processed.mimeType, mimeType),
     size |-> BufferLength(processed.buffer),
     resized |-> processed.resized]


\* the name of an item's archive entry: <<paddedSort, safeTitle, extension>>
\* stands for `${paddedSort}_${safeTitle}.${extension}`
EntryName(item) ==
    LET paddedSort == PadStartZero(NatToString(item.sort), 3)
    IN  <<paddedSort, sanitizeFilename(item.title, Dccon \o <<"_">> \o paddedSort),
          Or(item.ext, "png")>>

RECURSIVE SumSizes(_)
SumSizes(items) == IF items = <<>> THEN 0 ELSE Head(items).size + SumSizes(Tail(items))

\* createZipBuffer(items) when it resolves: the entries in append order. The
\* archive's length stands for the compressed length.
createZipBuffer(items) ==
    [entries |-> [i \in 1..Len(items) |-> [name |-> EntryName(items[i]), data |-> items[i].buffer]],
     length |-> SumSizes(items)]

\* `data:${mimeType};base64,${buffer.toString('base64')}`
DataUrl(mimeType, buffer) == [mimeType |-> mimeType, base64 |-> buffer]

\* the previews as they would be without slice(0, PREVIEW_COUNT)
BuildPreviews_All(items) ==
    [i \in 1..Len(items) |->
        [idx |-> items[i].idx, title |-> items[i].title, mimeType |-> items[i].mimeType,
         dataUrl |-> DataUrl(items[i].mimeType, items[i].buffer)]]

\* lines 252-257
BuildPreviews(items) ==
    [i \in 1..Min(PREVIEW_COUNT, Len(items)) |->
        [idx |-> items[i].idx, title |-> items[i].title, mimeType |-> items[i].mimeType,
         dataUrl |-> DataUrl(items[i].mimeType, items[i].buffer)]]

\* what downloadDcConPackage returns (lines 265-277)
PackageResult(packageId, detail, items, resizeOption) ==
    LET zipBuffer == createZipBuffer(items) IN
    [info |-> detail.info,
     items |-> items,
     previews |-> BuildPreviews(items),
     options |-> [resize |-> resizeOption],
     zip |-> [buffer |-> zipBuffer,
              filename |-> buildArchiveFilename(
                               IF IsPresent(detail.info) THEN Get(detail.info).title ELSE Undefined,
                               Some(packageId)),
              size |-> zipBuffer.length]]

----------------------------------------------------------------------------
(* jobQueue.js: jobs and the worker                                        *)

\* A message is a non-empty sequence: its text, then the values it embeds.
Msg(text) == <<text>>

MsgSessionRequired == Msg("session identifier required")       \* line 28
MsgInvalidUrl == Msg("not a valid dccon URL")                   \* line 116
MsgQueued == Msg("waiting for download")                        \* line 135
MsgPreparing == Msg("preparing the job")                        \* line 186
MsgDone == Msg("download completed")                            \* line 213
MsgUnknownError == Msg("unknown error")                         \* line 221
MsgJobNotFound == Msg("job not found")                          \* line 334
MsgNotReady == Msg("cannot download yet")                       \* line 340

\* the job object of createJob (lines 124-144); startedAt and completedAt are
\* not set yet
NewJob(id, sessionId, url, packageId, resizeOption, t) ==
    [id |-> id,
     sessionId |-> sessionId,
     url |-> url,
     packageId |-> packageId,
     options |-> [resize |-> resizeOption],
     status |-> "queued",
     progress |-> 0,
     stage |-> "queued",
     message |-> MsgQueued,
     createdAt |-> t,
     updatedAt |-> t,
     packageTitle |-> Undefined,
     packageInfo |-> Undefined,
     items |-> <<>>,
     previews |-> <<>>,
     zip |-> Undefined,
     error |-> Undefined,
     startedAt |-> Undefined,
     completedAt |-> Undefined]

\* summariseItems(items)
summariseItems(items) ==
    [i \in 1..Len(items) |->
        [idx |-> items[i].idx,
         sort |-> items[i].sort,
         title |-> items[i].title,
         ext |-> items[i].ext,
         size |-> items[i].size,
         sizeLabel |-> formatBytes(items[i].size),
         mimeType |-> items[i].mimeType,
         resized |-> items[i].resized,
         dataUrl |-> IF items[i].mimeType # ""
                     THEN Some(DataUrl(items[i].mimeType, items[i].buffer))
                     ELSE Undefined]]

\* toPublicJob(job) for a job object
toPublicJob(job) ==
    [id |-> job.id,
     url |-> job.url,
     packageId |-> job.packageId,
     options |-> job.options,
     status |-> job.status,
     stage |-> job.stage,
     progress |-> job.progress,
     message |-> job.message,
     error |-> job.error,
     packageTitle |-> job.packageTitle,
     packageInfo |-> job.packageInfo,
     itemCount |-> Len(job.items),
     items |-> summariseItems(job.items),
     previews |-> [i \in 1..Len(job.previews) |->
                     [idx |-> job.previews[i].idx, title |-> job.previews[i].title,
                      mimeType |-> job.previews[i].mimeType,
                      dataUrl |-> job.previews[i].dataUrl]],
     archive |-> IF IsPresent(job.zip)
                 THEN Some([filename |-> Get(job.zip).filename,
                            size |-> Get(job.zip).size,
                            sizeLabel |-> formatBytes(Get(job.zip).size)])
                 ELSE Undefined,
     createdAt |-> job.createdAt,
     updatedAt |-> job.updatedAt,
     startedAt |-> job.startedAt,
     completedAt |-> job.completedAt]

\* the worker's continuation while no job runs; emitted is the history of the
\* onProgress calls that the latest downloadDcConPackage run has made
IdleRun ==
    [pc |-> "idle", jobId |-> NoJob, detail |-> Undefined, index |-> 0,
     items |-> <<>>, mimeType |-> "", emitted |-> <<>>]

\* runJob's start as it would be if it replaced the url by the package ID
RunJobStart_Canonical(job, t) ==
    [job EXCEPT !.status = "processing",
                !.stage = "initializing",
                !.progress = 100,
                !.message = MsgPreparing,
                !.startedAt = Some(t),
                !.updatedAt = t,
                !.url = job.packageId]

\* runJob's start as it would be without the assignment of startedAt
RunJobStart_NoStartedAt(job, t) ==
    [job EXCEPT !.status = "processing",
                !.stage = "initializing",
                !.progress = 100,
                !.message = MsgPreparing,
                !.updatedAt = t]

\* runJob's start as it would be with progress 0.1 in place of 0.01
RunJobStart_TenPercent(job, t) ==
    [job EXCEPT !.status = "processing",
                !.stage = "initializing",
                !.progress = 1000,
                !.message = MsgPreparing,
                !.startedAt = Some(t),
                !.updatedAt = t]

\* runJob up to its first await (lines 183-198): the job starts and
\* downloadDcConPackage waits for the home page
RunJobStart(job, t) ==
    [job EXCEPT !.status = "processing",
                !.stage = "initializing",
                !.progress = 100,
                !.message = MsgPreparing,
                !.startedAt = Some(t),
                !.updatedAt = t]

\* the onProgress callback of runJob (lines 190-195), progress in ten-thousandths
onProgress(job, stage, progress, message, t) ==
    [job EXCEPT !.stage = stage,
                !.progress = Min(10000, Max(0, progress)),
                !.message = message,
                !.updatedAt = t]

\* runJob's success path as it would be without line 208 (job.zip = zip)
RunJobSucceed_NoZip(job, result, t) ==
    [job EXCEPT !.packageTitle = IF IsPresent(result.info) THEN Get(result.info).title
                                 ELSE Undefined,
                !.packageInfo = result.info,
                !.items = result.items,
                !.previews = result.previews,
                !.status = "completed",
                !.stage = "completed",
                !.progress = 10000,
                !.message = MsgDone,
                !.completedAt = Some(t),
                !.updatedAt = t]

\* runJob after downloadDcConPackage returned result (lines 204-214, 224)
RunJobSucceed(job, result, t) ==
    [job EXCEPT !.packageTitle = IF IsPresent(result.info) THEN Get(result.info).title
                                 ELSE Undefined,
                !.packageInfo = result.info,
                !.items = result.items,
                !.previews = result.previews,
                !.zip = Some(result.zip),
                !.status = "completed",
                !.stage = "completed",
                !.progress = 10000,
                !.message = MsgDone,
                !.completedAt = Some(t),
                !.updatedAt = t]

\* runJob's catch block as it would be if a failed job were put back to wait
RunJobFail_Requeue(job, error, t) ==
    [job EXCEPT !.status = "queued",
                !.stage = "queued",
                !.error = IF IsPresent(error.message) THEN error.message ELSE MsgUnknownError,
                !.updatedAt = t]

\* runJob's catch block as it would be without line 222 (job.message = job.error)
RunJobFail_KeepMessage(job, error, t) ==
    [job EXCEPT !.status = "failed",
                !.stage = "failed",
                !.error = IF IsPresent(error.message) THEN error.message ELSE MsgUnknownError,
                !.updatedAt = t]

\* runJob after downloadDcConPackage threw error (lines 215-224); error.message
\* is a message, or Undefined when the thrown value has no string message
RunJobFail(job, error, t) ==
    LET text == IF IsPresent(error.message) THEN error.message ELSE MsgUnknownError IN
    [job EXCEPT !.status = "failed",
                !.stage = "failed",
                !.error = text,
                !.message = text,
                !.updatedAt = t]

\* lines 163-172 of processQueue: the head of the queue is taken; a stale ID
\* is skipped and the loop rescheduled, a queued job is marked running and run
Dequeue(st, nextJobId, shifted, t) ==
    IF nextJobId \notin DOMAIN st.jobs \/ st.jobs[nextJobId].status # "queued"
    THEN [shifted EXCEPT !.scheduled = @ + 1]
    ELSE [shifted EXCEPT !.processingJob = nextJobId,
                         !.jobs[nextJobId] = RunJobStart(@, t),
                         !.run = [IdleRun EXCEPT !.pc = "initializeSession",
                                                 !.jobId = nextJobId]]

\* processQueue as it would be without the test of the running marker
processQueue_IgnoreMarker(st, t) ==
    IF st.queue = <<>> THEN st
    ELSE Dequeue(st, Head(st.queue), [st EXCEPT !.queue = Tail(st.queue)], t)

\* processQueue() at time t
processQueue(st, t) ==
    IF st.processingJob # NoJob \/ st.queue = <<>> THEN st
    ELSE Dequeue(st, Head(st.queue), [st EXCEPT !.queue = Tail(st.queue)], t)

\* the .finally of processQueue as it would be without processingJob = null
RunSettled_KeepMarker(st) ==
    [st EXCEPT !.scheduled = @ + 1,
               !.run = [IdleRun EXCEPT !.emitted = st.run.emitted]]

\* the .finally of processQueue as it would be without setImmediate(processQueue)
RunSettled_NoReschedule(st) ==
    [st EXCEPT !.processingJob = NoJob,
               !.run = [IdleRun EXCEPT !.emitted = st.run.emitted]]

\* the .finally of processQueue (lines 176-179) once runJob has settled
RunSettled(st) ==
    [st EXCEPT !.processingJob = NoJob, !.scheduled = @ + 1,
               !.run = [IdleRun EXCEPT !.emitted = st.run.emitted]]

\* the registration as it would be with unshift in place of push
RegisterJob_Unshift(st, job) ==
    LET order == IF job.sessionId \in DOMAIN st.sessionJobs
                 THEN st.sessionJobs[job.sessionId] ELSE <<>>
    IN  [st EXCEPT !.jobs = MapSet(@, job.id, job),
                   !.sessionJobs = MapSet(@, job.sessionId, <<job.id>> \o order)]

\* lines 146-149 of createJob: the job enters the map and goes last in its
\* session's order list (getSessionOrder makes the list when there is none)
RegisterJob(st, job) ==
    LET order == IF job.sessionId \in DOMAIN st.sessionJobs
                 THEN st.sessionJobs[job.sessionId] ELSE <<>>
    IN  [st EXCEPT !.jobs = MapSet(@, job.id, job),
                   !.sessionJobs = MapSet(@, job.sessionId, Append(order, job.id))]

\* what an API call gives its caller: a return value, or a thrown error with
\* its statusCode and message
Return(st, body) == [st |-> st, outcome |-> "return", statusCode |-> 0, body |-> body]
Throw(st, statusCode, message) ==
    [st |-> st, outcome |-> "throw", statusCode |-> statusCode, body |-> message]

\* line 155: the projection of the job object, whether or not the map still
\* holds it
CreateReturn(st, job) ==
    Return(st, <<toPublicJob(IF job.id \in DOMAIN st.jobs THEN st.jobs[job.id] ELSE job)>>)

\* the enqueueing as it would be with unshift in place of push
Enqueue_Front(st, jobId) == [st EXCEPT !.queue = <<jobId>> \o @]

\* lines 146-153: register, trim, enqueue, kick the worker
Enqueue(st, jobId) == [st EXCEPT !.queue = Append(@, jobId)]

CreateRegistered(cleaned, job, t) ==
    CreateReturn(processQueue(Enqueue(trimSessionJobs(RegisterJob(cleaned, job), job.sessionId),
                                      job.id), t),
                 job)

\* lines 112-144, after the session ID was accepted and the cleanup ran
CreateCleaned(cleaned, sid, trimmedUrl, packageId, options, id, t) ==
    IF ~IsPresent(packageId) THEN Throw(cleaned, 400, MsgInvalidUrl)
    ELSE CreateRegistered(cleaned,
                          NewJob(id, sid, trimmedUrl, Get(packageId),
                                 normalizeResizeOption(options.resize), t),
                          t)

\* createJob as it would be with the cleanup before assertSessionId
CreateValidated_CleanupFirst(st, validSessionId, url, options, id, t) ==
    IF ~IsPresent(validSessionId) THEN Throw(cleanupExpiredJobs(st, t), 400, MsgSessionRequired)
    ELSE CreateCleaned(cleanupExpiredJobs(st, t), Get(validSessionId), Trim(url),
                       extractPackageId(Trim(url)), options, id, t)

CreateValidated(st, validSessionId, url, options, id, t) ==
    IF ~IsPresent(validSessionId) THEN Throw(st, 400, MsgSessionRequired)
    ELSE CreateCleaned(cleanupExpiredJobs(st, t), Get(validSessionId), Trim(url),
                       extractPackageId(Trim(url)), options, id, t)

\* createJob(url, sessionId, options) called at time t when nanoid() yields id:
\* the state after the call and what the caller gets
createJob(st, url, sessionId, options, id, t) ==
    CreateValidated(st, assertSessionId(sessionId), url, options, id, t)

\* the loop of listJobs (lines 297-307): stale IDs leave the order list
PruneOrder(order, jobMap) == SelectSeq(order, LAMBDA jobId : jobId \in DOMAIN jobMap)

\* lines 309-313 of listJobs with the pruned order list
ListPruned(cleaned, sid, order) ==
    Return([cleaned EXCEPT !.sessionJobs = IF order = <<>> THEN MapDelete(@, sid)
                                           ELSE MapSet(@, sid, order)],
           [i \in 1..Len(order) |-> toPublicJob(cleaned.jobs[order[i]])])

\* lines 292-313 of listJobs
ListCleaned(cleaned, sid) ==
    IF sid \notin DOMAIN cleaned.sessionJobs \/ cleaned.sessionJobs[sid] = <<>>
    THEN Return(cleaned, <<>>)
    ELSE ListPruned(cleaned, sid, PruneOrder(cleaned.sessionJobs[sid], cleaned.jobs))

ListValidated(st, validSessionId, t) ==
    IF ~IsPresent(validSessionId) THEN Throw(st, 400, MsgSessionRequired)
    ELSE ListCleaned(cleanupExpiredJobs(st, t), Get(validSessionId))

\* listJobs(sessionId) at time t
listJobs(st, sessionId, t) == ListValidated(st, assertSessionId(sessionId), t)

\* the ownership test of getJob and getJobDownloadData (lines 321, 333)
IsOwned(st, sid, jobId) == jobId \in DOMAIN st.jobs /\ st.jobs[jobId].sessionId = sid

\* lines 320-325 of getJob; the body is <<job>>, or <<>> for null
GetCleaned(cleaned, sid, jobId) ==
    IF ~IsOwned(cleaned, sid, jobId) THEN Return(cleaned, <<>>)
    ELSE Return(cleaned, <<toPublicJob(cleaned.jobs[jobId])>>)

\* getJob as it would be if a read refreshed the job's updatedAt
GetValidated_Touch(st, validSessionId, jobId, t) ==
    IF ~IsPresent(validSessionId) THEN Throw(st, 400, MsgSessionRequired)
    ELSE LET cleaned == cleanupExpiredJobs(st, t) IN
         IF ~IsOwned(cleaned, Get(validSessionId), jobId) THEN Return(cleaned, <<>>)
         ELSE GetCleaned([cleaned EXCEPT !.jobs[jobId].updatedAt = t],
                         Get(validSessionId), jobId)

GetValidated(st, validSessionId, jobId, t) ==
    IF ~IsPresent(validSessionId) THEN Throw(st, 400, MsgSessionRequired)
    ELSE GetCleaned(cleanupExpiredJobs(st, t), Get(validSessionId), jobId)

\* getJob(sessionId, jobId) at time t
getJob(st, sessionId, jobId, t) == GetValidated(st, assertSessionId(sessionId), jobId, t)

\* getJobDownloadData as it would be with the readiness test made before the
\* ownership test
DownloadCleaned_StatusFirst(cleaned, sid, jobId) ==
    IF jobId \notin DOMAIN cleaned.jobs THEN Throw(cleaned, 404, MsgJobNotFound)
    ELSE IF cleaned.jobs[jobId].status # "completed" \/ ~IsPresent(cleaned.jobs[jobId].zip)
    THEN Throw(cleaned, 409, MsgNotReady)
    ELSE IF cleaned.jobs[jobId].sessionId # sid THEN Throw(cleaned, 404, MsgJobNotFound)
    ELSE Return(cleaned, cleaned.jobs[jobId].zip)

\* getJobDownloadData as it would be without the readiness test
DownloadCleaned_NoReadyCheck(cleaned, sid, jobId) ==
    IF ~IsOwned(cleaned, sid, jobId) THEN Throw(cleaned, 404, MsgJobNotFound)
    ELSE Return(cleaned, cleaned.jobs[jobId].zip)

\* lines 332-345 of getJobDownloadData; the body is <<job.zip>>
DownloadCleaned(cleaned, sid, jobId) ==
    IF ~IsOwned(cleaned, sid, jobId) THEN Throw(cleaned, 404, MsgJobNotFound)
    ELSE IF cleaned.jobs[jobId].status # "completed" \/ ~IsPresent(cleaned.jobs[jobId].zip)
    THEN Throw(cleaned, 409, MsgNotReady)
    ELSE Return(cleaned, cleaned.jobs[jobId].zip)

DownloadValidated(st, validSessionId, jobId, t) ==
    IF ~IsPresent(validSessionId) THEN Throw(st, 400, MsgSessionRequired)
    ELSE DownloadCleaned(cleanupExpiredJobs(st, t), Get(validSessionId), jobId)

\* getJobDownloadData(sessionId, jobId) at time t
getJobDownloadData(st, sessionId, jobId, t) ==
    DownloadValidated(st, assertSessionId(sessionId), jobId, t)

----------------------------------------------------------------------------
(* The run of one job: downloadDcConPackage resumed at each of its awaits. *)
(* Everything between two awaits, and the promise callbacks that follow    *)
(* runJob's return, happens within one step.                               *)

MsgConnectFailed == Msg("initial connection failed")            \* downloader:77
MsgNoToken == Msg("could not get the auth token")               \* downloader:88
MsgDetailFailed == Msg("could not load the dccon details")      \* downloader:135
MsgDetailShape == Msg("dccon details are malformed")            \* downloader:141
MsgImageFailed == Msg("could not download the image")           \* downloader:160
MsgArchiveError == Msg("archive error")                         \* downloader:175
MsgSessionReady == Msg("initialising the session")              \* downloader:196
MsgDetailLoaded == Msg("loaded the dccon details")              \* downloader:203
MsgZipBuilt == Msg("built the ZIP file")                        \* downloader:249
MsgAllDone == Msg("all work is done")                           \* downloader:262

\* `${index + 1}/${length} images saved` with the resize note when resized
MsgImageSaved(count, length, resized) == <<"images saved", count, length, resized>>

\* the progress as it would be with index in place of index + 1
ImageProgress_ZeroBased(index, length) == 1500 + (index * 7500) \div length

\* 0.15 + ((index + 1) / length) * 0.75 in ten-thousandths
ImageProgress(index, length) == 1500 + ((index + 1) * 7500) \div length

\* options.resize as downloadDcConPackage reads it (lines 206-209)
ResizeOption(job) ==
    IF IsPresent(job.options.resize) /\ Get(job.options.resize) > 0
    THEN job.options.resize ELSE Undefined

\* downloadDcConPackage calls onProgress({stage, progress, message})
Report(st, stage, progress, message, t) ==
    [st EXCEPT !.jobs[st.run.jobId] = onProgress(@, stage, progress, message, t),
               !.run.emitted = Append(@, [stage |-> stage, progress |-> progress])]

\* downloadDcConPackage threw: runJob's catch and finally, then processQueue's
FailRun(st, error, t) ==
    RunSettled([st EXCEPT !.jobs[st.run.jobId] = RunJobFail(@, error, t)])

\* initializeSession() settled
InitializeSessionDone(st, outcome, t) ==
    CASE outcome = "ok" ->
            [Report(st, "session", 500, MsgSessionReady, t)
                 EXCEPT !.run.pc = "fetchPackageDetail"]
      [] outcome = "not ok" -> FailRun(st, [message |-> MsgConnectFailed], t)
      [] OTHER -> FailRun(st, [message |-> MsgNoToken], t)

\* the loop head of line 212 after index items are done: the next image is
\* requested, or the archive is built
NextItem(st, index) ==
    IF index < Len(Get(st.run.detail).detail)
    THEN [st EXCEPT !.run.pc = "fetchImageBuffer", !.run.index = index, !.run.mimeType = ""]
    ELSE [st EXCEPT !.run.pc = "createZipBuffer", !.run.index = index, !.run.mimeType = ""]

\* fetchPackageDetail() settled
FetchPackageDetailDone(st, outcome, t) ==
    CASE outcome = "ok" ->
            LET job == st.jobs[st.run.jobId]
                detail == SiteDetail(job.packageId)
            IN  NextItem([Report(st, "detail", 1500, MsgDetailLoaded, t)
                              EXCEPT !.run.detail = Some(detail)],
                         0)
      [] outcome = "not ok" -> FailRun(st, [message |-> MsgDetailFailed], t)
      [] OTHER -> FailRun(st, [message |-> MsgDetailShape], t)

\* lines 222-241: the processed item is pushed, progress is reported and the
\* loop goes on
PushItem(st, processed, t) ==
    LET detail == Get(st.run.detail).detail
        index == st.run.index
        built == BuildItem(detail[index + 1], index, st.run.mimeType, processed)
    IN  NextItem(Report([st EXCEPT !.run.items = Append(@, built)],
                        "image", ImageProgress(index, Len(detail)),
                        MsgImageSaved(index + 1, Len(detail), processed.resized), t),
                 index + 1)

\* fetchImageBuffer() settled for the item at run.index
FetchImageBufferDone(st, outcome, t) ==
    IF outcome # "ok" THEN FailRun(st, [message |-> MsgImageFailed], t)
    ELSE LET item == Get(st.run.detail).detail[st.run.index + 1]
             mimeType == Or(SiteImage(item.path).contentType, "image/png")
             got == [st EXCEPT !.run.mimeType = mimeType]
         IN  IF ResizeAttempted(item.ext, mimeType, ResizeOption(st.jobs[st.run.jobId]))
             THEN [got EXCEPT !.run.pc = "applyResize"]
             ELSE PushItem(got, Unresized([path |-> item.path, resize |-> 0], item.ext, mimeType), t)

\* the settling as it would be without the try/catch around sharp
ApplyResizeDone_Fatal(st, outcome, t) ==
    LET item == Get(st.run.detail).detail[st.run.index + 1]
        buffer == [path |-> item.path, resize |-> 0]
        size == Get(ResizeOption(st.jobs[st.run.jobId]))
    IN  IF outcome = "ok"
        THEN PushItem(st, Resized(buffer, item.ext, st.run.mimeType, size), t)
        ELSE FailRun(st, [message |-> MsgUnknownError], t)

\* sharp settled for the item at run.index
ApplyResizeDone(st, outcome, t) ==
    LET item == Get(st.run.detail).detail[st.run.index + 1]
        buffer == [path |-> item.path, resize |-> 0]
        size == Get(ResizeOption(st.jobs[st.run.jobId]))
    IN  IF outcome = "ok"
        THEN PushItem(st, Resized(buffer, item.ext, st.run.mimeType, size), t)
        ELSE PushItem(st, Unresized(buffer, item.ext, st.run.mimeType), t)

\* the settling as it would be without the archive report
CreateZipBufferDone_NoArchive(st, outcome, t) ==
    IF outcome = "error" THEN FailRun(st, [message |-> MsgArchiveError], t)
    ELSE IF outcome # "ok" THEN FailRun(st, [message |-> Undefined], t)
    ELSE LET id == st.run.jobId
             job == st.jobs[id]
             result == PackageResult(job.packageId, Get(st.run.detail), st.run.items,
                                     ResizeOption(job))
             complete == Report(st, "complete", 10000, MsgAllDone, t)
         IN  RunSettled([complete EXCEPT !.jobs[id] = RunJobSucceed(@, result, t)])

\* createZipBuffer() settled
CreateZipBufferDone(st, outcome, t) ==
    IF outcome = "error" THEN FailRun(st, [message |-> MsgArchiveError], t)
    ELSE IF outcome # "ok" THEN FailRun(st, [message |-> Undefined], t)
    ELSE LET id == st.run.jobId
             job == st.jobs[id]
             result == PackageResult(job.packageId, Get(st.run.detail), st.run.items,
                                     ResizeOption(job))
             complete == Report(Report(st, "archive", 9500, MsgZipBuilt, t),
                                "complete", 10000, MsgAllDone, t)
         IN  RunSettled([complete EXCEPT !.jobs[id] = RunJobSucceed(@, result, t)])

----------------------------------------------------------------------------
(* The state machine.                                                      *)

State ==
    [jobs |-> jobs, queue |-> queue, sessionJobs |-> sessionJobs,
     processingJob |-> processingJob, scheduled |-> scheduled, run |-> run]

\* no helper function is being called
NoCall == [fn |-> "none", args |-> <<>>, result |-> Undefined]

Becomes(st) ==
    /\ jobs' = st.jobs
    /\ queue' = st.queue
    /\ sessionJobs' = st.sessionJobs
    /\ processingJob' = st.processingJob
    /\ scheduled' = st.scheduled
    /\ run' = st.run
    /\ UNCHANGED call

Init ==
    /\ jobs = <<>>
    /\ queue = <<>>
    /\ sessionJobs = <<>>
    /\ processingJob = NoJob
    /\ scheduled = 0
    /\ run = IdleRun
    /\ now = 0
    /\ nextId = 1
    /\ call = NoCall

\* inputs
S1 == <<"s", "1">>
S2 == <<"s", "2">>
PaddedS1 == <<" ", "s", "1", " ">>
Blank == <<" ">>

UrlA == <<" ", "a", ".", "c", "o", "/", "#", "1", "2", "3">>
UrlB == <<"i", "d", "x", "=", "4", "5">>
UrlBad == <<"n", "o", " ", "d", "i", "g", "i", "t", "s">>

NoResize == [t |-> "undefined", v |-> 0]
Resize128 == [t |-> "number", v |-> 1280]

\* the createJob requests of the general specification
Requests ==
    {[url |-> UrlA, sessionId |-> Some(S1), options |-> [resize |-> NoResize]],
     [url |-> UrlB, sessionId |-> Some(S2), options |-> [resize |-> NoResize]],
     [url |-> UrlA, sessionId |-> Some(PaddedS1), options |-> [resize |-> NoResize]],
     [url |-> UrlBad, sessionId |-> Some(S1), options |-> [resize |-> NoResize]],
     [url |-> UrlA, sessionId |-> Some(Blank), options |-> [resize |-> NoResize]]}

\* the createJob requests of the retention-cap specification
CapRequests ==
    {[url |-> UrlB, sessionId |-> Some(S1), options |-> [resize |-> NoResize]]}

\* the readings the clock is advanced to
ClockReadings == {JOB_TTL_MS + 1}

\* POST /api/jobs
CreateJob(req) ==
    LET r == createJob(State, req.url, req.sessionId, req.options, nextId, now) IN
    /\ Becomes(r.st)
    /\ nextId' = IF r.outcome = "return" THEN nextId + 1 ELSE nextId
    /\ UNCHANGED now

\* GET /api/jobs
ListJobs(sessionId) ==
    LET r == listJobs(State, sessionId, now) IN
    /\ Becomes(r.st)
    /\ UNCHANGED <<now, nextId>>

\* GET /api/jobs/:id
GetJob(sessionId, jobId) ==
    LET r == getJob(State, sessionId, jobId, now) IN
    /\ Becomes(r.st)
    /\ UNCHANGED <<now, nextId>>

\* GET /api/jobs/:id/download
GetJobDownloadData(sessionId, jobId) ==
    LET r == getJobDownloadData(State, sessionId, jobId, now) IN
    /\ Becomes(r.st)
    /\ UNCHANGED <<now, nextId>>

\* a setImmediate(processQueue) callback runs
ScheduledProcessQueue ==
    /\ scheduled > 0
    /\ Becomes(processQueue([State EXCEPT !.scheduled = @ - 1], now))
    /\ UNCHANGED <<now, nextId>>

\* the await the running job is suspended at settles with outcome
Resume(pc, outcome) ==
    /\ run.pc = pc
    /\ Becomes(CASE pc = "initializeSession" -> InitializeSessionDone(State, outcome, now)
                 [] pc = "fetchPackageDetail" -> FetchPackageDetailDone(State, outcome, now)
                 [] pc = "fetchImageBuffer" -> FetchImageBufferDone(State, outcome, now)
                 [] pc = "applyResize" -> ApplyResizeDone(State, outcome, now)
                 [] OTHER -> CreateZipBufferDone(State, outcome, now))
    /\ UNCHANGED <<now, nextId>>

\* how the awaits settle in the specifications below: an image download can
\* fail (fetchImageBuffer throws) and so can the archive (createZipBuffer
\* rejects); the other awaits succeed
Outcomes(pc) ==
    CASE pc = "fetchImageBuffer" -> {"ok", "not ok"}
      [] pc = "createZipBuffer" -> {"ok", "error"}
      [] OTHER -> {"ok"}

Awaits == {"initializeSession", "fetchPackageDetail", "fetchImageBuffer", "applyResize",
           "createZipBuffer"}

\* Date.now() advances to t
Tick(t) ==
    /\ now < t
    /\ now' = t
    /\ UNCHANGED <<jobs, queue, sessionJobs, processingJob, scheduled, run, nextId, call>>

\* The general specification: two sessions, jobs that complete and jobs that
\* fail, reads at any moment, the clock passing the TTL.
Next ==
    \/ \E req \in Requests : nextId <= MaxJobs /\ CreateJob(req)
    \/ \E sessionId \in {Some(S1), Some(Blank)} : ListJobs(sessionId)
    \/ GetJob(Some(S1), 1)
    \/ GetJobDownloadData(Some(S1), 1)
    \/ ScheduledProcessQueue
    \/ \E pc \in Awaits : \E outcome \in Outcomes(pc) : Resume(pc, outcome)
    \/ \E t \in ClockReadings : Tick(t)

Spec == Init /\ [][Next]_vars

\* The retention-cap specification: one session submits more jobs than the
\* cap, after a first job of its own or of another session, while every
\* download succeeds.
NextCap ==
    \/ \E req \in CapRequests : nextId <= MaxJobsCap /\ CreateJob(req)
    \/ /\ nextId = 1
       /\ CreateJob([url |-> UrlB, sessionId |-> Some(S2), options |-> [resize |-> NoResize]])
    \/ ListJobs(Some(S1))
    \/ ScheduledProcessQueue
    \/ \E pc \in Awaits : Resume(pc, "ok")

SpecCap == Init /\ [][NextCap]_vars

\* every way each await of downloadDcConPackage can settle
AllOutcomes(pc) ==
    CASE pc = "initializeSession" -> {"ok", "not ok", "no token"}
      [] pc = "fetchPackageDetail" -> {"ok", "not ok", "bad shape"}
      [] pc = "fetchImageBuffer" -> {"ok", "not ok"}
      [] pc = "applyResize" -> {"ok", "throws"}
      [] OTHER -> {"ok", "error", "no message"}

\* the createJob requests of the fetcher specification
FetchRequests ==
    {[url |-> UrlA, sessionId |-> Some(S1), options |-> [resize |-> Resize128]],
     [url |-> UrlA, sessionId |-> Some(S1), options |-> [resize |-> NoResize]],
     [url |-> UrlB, sessionId |-> Some(S1), options |-> [resize |-> Resize128]],
     [url |-> <<"n", "o", "=", "5", "5", "5">>, sessionId |-> Some(S1),
      options |-> [resize |-> Resize128]],
     [url |-> <<"n", "o", "=", "9", "0", "0">>, sessionId |-> Some(S1),
      options |-> [resize |-> Resize128]]}

\* The fetcher specification: packages with and without resizing, every await
\* settling in every way it can.
NextFetch ==
    \/ \E req \in FetchRequests : nextId <= MaxFetchJobs /\ CreateJob(req)
    \/ ScheduledProcessQueue
    \/ \E pc \in Awaits : \E outcome \in AllOutcomes(pc) : Resume(pc, outcome)

SpecFetch == Init /\ [][NextFetch]_vars

\* how the awaits settle in the worker specification: the session request can
\* fail
LiveOutcomes(pc) == IF pc = "initializeSession" THEN {"ok", "not ok"} ELSE {"ok"}

\* The worker specification: two sessions submit jobs while others run or fail, and
\* every pending callback and every pending await is eventually served
\* (setImmediate callbacks run; each fetcher request returns or fails).
NextLive ==
    \/ \E sessionId \in {S1, S2} :
          /\ nextId <= MaxLiveJobs
          /\ CreateJob([url |-> UrlB, sessionId |-> Some(sessionId),
                        options |-> [resize |-> NoResize]])
    \/ ScheduledProcessQueue
    \/ \E pc \in Awaits : \E outcome \in LiveOutcomes(pc) : Resume(pc, outcome)

SpecLive ==
    /\ Init
    /\ [][NextLive]_vars
    /\ WF_vars(ScheduledProcessQueue)
    /\ WF_vars(\E pc \in Awaits : \E outcome \in LiveOutcomes(pc) : Resume(pc, outcome))

\* resolveSessionId(req) of index.js on req.headers['x-session-id'] and
\* req.query.session_id. A raw value is [t, v]: t is "absent", "string" or
\* "array" and v the list of its strings (one for a string). The result is
\* Undefined for undefined, else <<string>>.
resolveSessionId(headerValue, queryValue) ==
    LET first(value) == IF value.v = <<>> THEN Undefined ELSE Some(Trim(value.v[1]))
    IN  IF headerValue.t = "array" THEN first(headerValue)
        ELSE IF headerValue.t = "string" THEN Some(Trim(headerValue.v[1]))
        ELSE IF queryValue.t = "array" THEN first(queryValue)
        ELSE IF queryValue.t = "string" THEN Some(Trim(queryValue.v[1]))
        ELSE Some(<<>>)

\* The helper specification: each exported pure function is applied once to
\* an input drawn from a bounded set.
PureCalls ==
    LET Call(fn, args) == [fn |-> fn, args |-> args, result |-> Undefined]
        byteCounts == (0..MaxBytes) \cup {1048575, 1048576, 1572864, 11010048,
                                          104857600, 1073741824, 1610612736}
        titles == {Undefined, Some(<<>>), Some(<<" ", " ">>), Some(<<"*", "?">>),
                   Some(<<"M", "y", ":", "P", "a", "c", "k", "*">>), Some(<<"P", "a", "c", "k">>), Some(<<" ", "a", "/", "b", " ", " ", "c", " ">>)}
        packageIds == {Undefined, Some(<<>>), Some(<<"4", "2">>)}
        prefixes == {<<"a", ".", "c", "o">>, <<"h", "t", "t", "p", ":", "/", "/", "a", ".", "c", "o">>}
        paths == {<<>>, <<"/", "x">>, <<"/", "1", "1", "1">>, <<"/", "1", "1", "1", "/", "2", "2", "2">>, <<"/", "3", "3", "3", "/", "x">>, <<"/", "1", "2", "3", "4", "5", "x", "/", "6", "7", "8">>}
        queries == {<<>>, <<"?", "i", "d", "x", "=", "5">>, <<"?", "i", "d", "=", "7", "7">>, <<"?", "i", "d", "=", "7", "x">>}
        fragments == {<<>>, <<"#", "4", "5", "6">>, <<"#", "4", "5">>, <<"#", "4", "5", "6", "7", "x">>}
        texts == {<<"h", "t", "t", "p", "s", ":", "/", "/", "d", "c", "c", "o", "n", ".", "d", "c", "i", "n", "s", "i", "d", "e", ".", "c", "o", "m", "/", "#", "1", "2", "3", "4", "5", "6">>,
                  <<"h", "t", "t", "p", "s", ":", "/", "/", "d", "c", "c", "o", "n", ".", "d", "c", "i", "n", "s", "i", "d", "e", ".", "c", "o", "m", "/", "i", "n", "d", "e", "x", "/", "p", "a", "c", "k", "a", "g", "e", "_", "d", "e", "t", "a", "i", "l", "?", "p", "a", "c", "k", "a", "g", "e", "_", "i", "d", "x", "=", "9", "8", "7", "6", "5">>,
                  <<"n", "o", " ", "d", "i", "g", "i", "t", "s", " ", "h", "e", "r", "e">>,
                  <<"p", "a", "c", "k", " ", "4", "5", "6", "7">>,
                  <<"h", "t", "t", "p", "x", "/", "5", "6", "7", "8">>,
                  <<"a", ".", "c", "o", "/", "a", "b", "1", "2", "3", "4">>,
                  <<"a", ".", "c", "o", "/", "1", "2">>,
                  <<"N", "O", "=", "1", "2">>,
                  <<" ", "a", ".", "c", "o", "/", "#", "0", "0", "7", "8", "9", " ">>,
                  <<"a", ".", "c", "o", "/", "x", "?", "n", "o", "=", "&", "i", "d", "=", "3", "1">>,
                  <<>>,
                  <<"p", "a", "c", "k", " ", "1", "1", "1", " ", "2", "2", "2">>,
                  <<"x", " ", "1", "2", "3", "4", "5", "y">>,
                  <<"v", " ", "1", "2", "a", " ", "3", "4", "5", "6", " ", "z">>}
        resizes == {[t |-> t, v |-> 0] : t \in {"undefined", "null", "nan", "infinity"}}
                   \cup {[t |-> "number", v |-> v] : v \in (-20..MaxResizeTenths) \cup {99990}}
        raw(name) == {[t |-> "absent", v |-> <<>>], [t |-> "array", v |-> <<>>],
                      [t |-> "string", v |-> << <<name, "1">> >>],
                      [t |-> "string", v |-> << <<" ", name, "1", " ">> >>],
                      [t |-> "string", v |-> << <<>> >>],
                      [t |-> "string", v |-> << <<" ", " ">> >>],
                      [t |-> "array", v |-> << <<name, "1">>, <<name, "2">> >>],
                      [t |-> "array", v |-> << <<" ">>, <<name, "2">> >>]}
    IN  {Call("formatBytes", <<bytes>>) : bytes \in byteCounts}
        \cup {Call("resolveSessionId", hq) : hq \in raw("h") \X raw("q")}
        \cup {Call("buildArchiveFilename", tp) : tp \in titles \X packageIds}
        \cup {Call("extractPackageId", parts) : parts \in prefixes \X paths \X queries \X fragments}
        \cup {Call("extractPackageId", <<text, <<>>, <<>>, <<>> >>) : text \in texts}
        \cup {Call("normalizeResizeOption", <<value>>) : value \in resizes}

InitPure ==
    /\ jobs = <<>>
    /\ queue = <<>>
    /\ sessionJobs = <<>>
    /\ processingJob = NoJob
    /\ scheduled = 0
    /\ run = IdleRun
    /\ now = 0
    /\ nextId = 1
    /\ call \in PureCalls

\* the pending call of fn is made and its result kept; the text given to
\* extractPackageId is the concatenation of its parts
Apply(fn) ==
    /\ call.fn = fn
    /\ ~IsPresent(call.result)
    /\ call' = [call EXCEPT !.result =
                  Some(CASE fn = "formatBytes" -> formatBytes(call.args[1])
                         [] fn = "buildArchiveFilename" ->
                              buildArchiveFilename(call.args[1], call.args[2])
                         [] fn = "extractPackageId" ->
                              extractPackageId(call.args[1] \o call.args[2]
                                               \o call.args[3] \o call.args[4])
                         [] fn = "resolveSessionId" ->
                              resolveSessionId(call.args[1], call.args[2])
                         [] OTHER -> normalizeResizeOption(call.args[1]))]
    /\ UNCHANGED <<jobs, queue, sessionJobs, processingJob, scheduled, run, now, nextId>>

NextPure ==
    \E fn \in {"formatBytes", "buildArchiveFilename", "extractPackageId",
               "normalizeResizeOption", "resolveSessionId"} : Apply(fn)

SpecPure == InitPure /\ [][NextPure]_vars

----------------------------------------------------------------------------
(* Properties of the job registry and its worker.                          *)

\* the IDs of the jobs with the given status
JobsWithStatus(status) == {id \in DOMAIN jobs : jobs[id].status = status}

\* the entries of a session's order list that are in the job map
RetainedOf(st, sid) ==
    IF sid \in DOMAIN st.sessionJobs
    THEN SelectSeq(st.sessionJobs[sid], LAMBDA id : id \in DOMAIN st.jobs)
    ELSE <<>>

\* C1: in every reachable state, whatever the interleaving of createJob calls,
\* reads and worker callbacks, at most one job of the job map has status
\* processing (and it is the one the running marker names).
C1_AtMostOneProcessing ==
    /\ Cardinality(JobsWithStatus("processing")) <= 1
    /\ \A id \in JobsWithStatus("processing") : processingJob = id

\* a job runs while another one waits in the pending queue
C1_Witness ==
    \E a, b \in DOMAIN jobs :
        /\ jobs[a].status = "processing"
        /\ jobs[b].status = "queued"
        /\ \E i \in 1..Len(queue) : queue[i] = b

\* C2: every status change of a job is queued -> processing,
\* processing -> completed or processing -> failed; terminal statuses are never
\* left, no job returns to queued, and an ID that enters the job map is a new
\* one, so processing is entered at most once per job.
C2_StatusTransitions ==
    [][/\ \A id \in DOMAIN jobs \cap DOMAIN jobs' :
            \/ jobs'[id].status = jobs[id].status
            \/ <<jobs[id].status, jobs'[id].status>> \in
                   {<<"queued", "processing">>, <<"processing", "completed">>,
                    <<"processing", "failed">>}
       /\ \A id \in DOMAIN jobs' \ DOMAIN jobs :
            /\ id = nextId
            /\ nextId' = nextId + 1
            /\ jobs'[id].status \in {"queued", "processing"}]_vars

\* one job has completed and another has failed
C2_Witness == JobsWithStatus("completed") # {} /\ JobsWithStatus("failed") # {}

\* C3: every successful createJob call returns a public job with status queued
\* and progress 0, whatever the state of the worker at the time of the call.
C3_CreateReturnsQueued ==
    \A req \in Requests :
        LET r == createJob(State, req.url, req.sessionId, req.options, nextId, now) IN
        r.outcome = "return" => r.body[1].status = "queued" /\ r.body[1].progress = 0

\* C4 as stated: in every reachable state every session retains at most 15
\* jobs.
C4_AtMostFifteenRetained ==
    \A sid \in DOMAIN sessionJobs : Len(RetainedOf(State, sid)) <= 15

\* C4 amended: when a createJob call for session S returns, S retains at most
\* 15 jobs unless the oldest job of S's order is processing (eviction stops at
\* it and the session stays over the cap).
C4_CapUnlessOldestProcessing ==
    \A req \in CapRequests :
        LET r == createJob(State, req.url, req.sessionId, req.options, nextId, now)
            retained == RetainedOf(r.st, Trim(Get(req.sessionId)))
        IN  /\ r.outcome = "return"
            /\ \/ Len(retained) <= 15
               \/ r.st.jobs[retained[1]].status = "processing"

\* the sixteenth job of the session evicted the first, which had finished
C4_Witness ==
    /\ S1 \in DOMAIN sessionJobs
    /\ Len(sessionJobs[S1]) = 15
    /\ 1 \notin DOMAIN jobs
    /\ 16 \in DOMAIN jobs

\* the session a job belongs to still lists it
Listed(orders, job) ==
    /\ job.sessionId \in DOMAIN orders
    /\ \E i \in 1..Len(orders[job.sessionId]) : orders[job.sessionId][i] = job.id

\* C5: a processing job is never removed from the job map or its session
\* order: removeJob on it returns false and changes nothing, TTL cleanup skips
\* it however old it is, cap enforcement stops at it, and no step of the
\* program takes a processing job out of the registry.
C5_ProcessingNeverRemoved ==
    /\ [](\A id \in JobsWithStatus("processing") :
            /\ removeJob(State, id) = [st |-> State, removed |-> FALSE]
            /\ \A t \in {now, now + JOB_TTL_MS + 1} :
                 /\ id \in DOMAIN cleanupExpiredJobs(State, t).jobs
                 /\ Listed(cleanupExpiredJobs(State, t).sessionJobs, jobs[id])
            /\ id \in DOMAIN trimSessionJobs(State, jobs[id].sessionId).jobs
            /\ Listed(trimSessionJobs(State, jobs[id].sessionId).sessionJobs, jobs[id]))
    /\ [][\A id \in JobsWithStatus("processing") :
            id \in DOMAIN jobs' /\ Listed(sessionJobs', jobs[id])]_vars

\* the session is over the cap because its oldest job is running
C5_Witness ==
    /\ S1 \in DOMAIN sessionJobs
    /\ Len(sessionJobs[S1]) > 15
    /\ jobs[sessionJobs[S1][1]].status = "processing"

\* thirty minutes in milliseconds
ThirtyMinutes == 30 * 60 * 1000

\* a finished job whose last update is more than thirty minutes old
Lapsed(job) ==
    /\ job.status \in {"completed", "failed"}
    /\ now - job.updatedAt > ThirtyMinutes

\* the jobs a call made now by session sid can find: created under sid, in the
\* job map and not lapsed
FindableBy(sid) ==
    {id \in DOMAIN jobs : jobs[id].sessionId = sid /\ ~Lapsed(jobs[id])}

\* the sessions that make calls, as the caller spells them
Callers == {S1, S2, PaddedS1}

\* C6: listJobs(S) returns exactly the jobs retained for session S, each one
\* once and as its public projection, in the order they were created (the
\* order of their IDs), and never a job of another session.
C6_ListIsSessionsJobsInOrder ==
    \A caller \in Callers :
        LET r == listJobs(State, Some(caller), now) IN
        /\ r.outcome = "return"
        /\ {r.body[i].id : i \in 1..Len(r.body)} = FindableBy(Trim(caller))
        /\ \A i, j \in 1..Len(r.body) : i < j => r.body[i].id < r.body[j].id
        /\ \A i \in 1..Len(r.body) : r.body[i] = toPublicJob(jobs[r.body[i].id])

\* one session holds two jobs while the other session holds none of them
C6_Witness ==
    /\ Cardinality(FindableBy(S1)) = 2
    /\ listJobs(State, Some(S2), now).body = <<>>

\* the answers to a call that names a job of another session are the answers
\* missingGet and missingDownload to a call that names no job at all
C7_AnsweredAsMissing(caller, missingGet, missingDownload) ==
    /\ missingGet.outcome = "return"
    /\ missingGet.body = <<>>
    /\ missingDownload.outcome = "throw"
    /\ missingDownload.statusCode = 404
    /\ missingDownload.body = MsgJobNotFound
    /\ \A id \in DOMAIN jobs :
         jobs[id].sessionId # Trim(caller) =>
            /\ getJob(State, Some(caller), id, now) = missingGet
            /\ getJobDownloadData(State, Some(caller), id, now) = missingDownload

\* C7: for getJob and getJobDownloadData a job of another session is answered
\* like a job ID that does not exist (none, and the 404 error), whatever the
\* status of that job; never with the 409 error.
C7_ForeignIsNotFound ==
    \A caller \in Callers :
        C7_AnsweredAsMissing(caller, getJob(State, Some(caller), nextId, now),
                             getJobDownloadData(State, Some(caller), nextId, now))

\* session s1 has a job of its own while a job of session s2 is running
C7_Witness ==
    \E a, b \in DOMAIN jobs :
        /\ jobs[a].sessionId = S1
        /\ jobs[b].sessionId = S2
        /\ jobs[b].status = "processing"

\* the public jobs that createJob, listJobs and getJob return now
PublicJobs ==
    LET created == UNION {LET r == createJob(State, req.url, req.sessionId, req.options,
                                             nextId, now)
                          IN  IF r.outcome = "return" THEN {r.body[1]} ELSE {} :
                          req \in CapRequests}
        listed == UNION {LET r == listJobs(State, Some(caller), now)
                         IN  {r.body[i] : i \in 1..Len(r.body)} : caller \in Callers}
        got == UNION {LET r == getJob(State, Some(caller), id, now)
                      IN  IF r.body # <<>> THEN {r.body[1]} ELSE {} :
                      caller \in Callers, id \in DOMAIN jobs}
    IN  created \cup listed \cup got

\* C8: getJobDownloadData returns the archive if and only if the job can be
\* found, belongs to the caller, is completed and has a zip; for a job of the
\* caller that is queued, processing or failed it throws the 409 error and
\* returns nothing. No public job carries the archive bytes.
C8_DownloadIffReady ==
    /\ \A caller \in Callers : \A id \in 1..nextId :
         LET r == getJobDownloadData(State, Some(caller), id, now)
             ready == /\ id \in FindableBy(Trim(caller))
                      /\ jobs[id].status = "completed"
                      /\ IsPresent(jobs[id].zip)
         IN  /\ r.outcome = "return" <=> ready
             /\ r.outcome = "return" =>
                  /\ r.body = jobs[id].zip
                  /\ "buffer" \in DOMAIN Get(r.body)
             /\ (id \in FindableBy(Trim(caller))
                   /\ jobs[id].status \in {"queued", "processing", "failed"}) =>
                  /\ r.outcome = "throw"
                  /\ r.statusCode = 409
                  /\ r.body = MsgNotReady
    /\ \A pub \in PublicJobs :
         /\ "zip" \notin DOMAIN pub
         /\ "buffer" \notin DOMAIN pub
         /\ IsPresent(pub.archive) => "buffer" \notin DOMAIN Get(pub.archive)

\* a session has a completed job that it can download, and one that is not
\* ready
C8_Witness ==
    \E a, b \in FindableBy(S1) :
        /\ jobs[a].status = "completed"
        /\ getJobDownloadData(State, Some(S1), a, now).outcome = "return"
        /\ jobs[b].status \in {"queued", "processing", "failed"}

\* C9: once a job is completed or failed and its updatedAt is more than 30
\* minutes in the past, no listJobs, getJob or getJobDownloadData call of any
\* session finds it, and the call leaves it out of the job map.
C9_LapsedJobsAreGone ==
    \A id \in DOMAIN jobs :
        Lapsed(jobs[id]) =>
            \A caller \in Callers :
                LET listed == listJobs(State, Some(caller), now)
                    got == getJob(State, Some(caller), id, now)
                    download == getJobDownloadData(State, Some(caller), id, now)
                IN  /\ \A i \in 1..Len(listed.body) : listed.body[i].id # id
                    /\ got.body = <<>>
                    /\ download.outcome = "throw"
                    /\ download.statusCode = 404
                    /\ id \notin DOMAIN listed.st.jobs
                    /\ id \notin DOMAIN got.st.jobs
                    /\ id \notin DOMAIN download.st.jobs

\* a completed job and a failed job have both lapsed and are still in the map
C9_Witness ==
    \E a, b \in DOMAIN jobs :
        /\ Lapsed(jobs[a]) /\ jobs[a].status = "completed"
        /\ Lapsed(jobs[b]) /\ jobs[b].status = "failed"

\* C10: in every reachable state a job has a zip if and only if it is
\* completed, and has items or previews only if it is completed; a job that
\* failed after images were downloaded has no items and no zip.
C10_ResultsOnlyWhenCompleted ==
    \A id \in DOMAIN jobs :
        /\ IsPresent(jobs[id].zip) <=> jobs[id].status = "completed"
        /\ jobs[id].items # <<>> => jobs[id].status = "completed"
        /\ jobs[id].previews # <<>> => jobs[id].status = "completed"

\* a job failed while the archive was built, after all its images were
\* downloaded, and a completed job holds its items, previews and zip
C10_Witness ==
    \E a, b \in DOMAIN jobs :
        /\ jobs[a].status = "failed"
        /\ jobs[a].error = MsgArchiveError
        /\ jobs[a].items = <<>>
        /\ jobs[b].status = "completed"
        /\ jobs[b].items # <<>>
        /\ jobs[b].previews # <<>>

\* the job enters processing in this step
Starts(id) ==
    /\ id \in DOMAIN jobs'
    /\ jobs'[id].status = "processing"
    /\ id \in DOMAIN jobs => jobs[id].status # "processing"

\* C11: a job's progress is always within [0, 1] (0..10000 ten-thousandths),
\* is 0.01 when the job starts, never decreases from one state to the next
\* while the job is processing, nor from one progress callback to the next, and
\* is 1 whenever the job is completed.
C11_ProgressMonotone ==
    /\ [](/\ \A id \in DOMAIN jobs :
               /\ jobs[id].progress \in 0..10000
               /\ jobs[id].status = "completed" => jobs[id].progress = 10000
               /\ jobs[id].status = "queued" => jobs[id].progress = 0
          /\ \A i \in 1..Len(run.emitted) :
               /\ run.emitted[i].progress >= 100
               /\ i > 1 => run.emitted[i].progress >= run.emitted[i - 1].progress)
    /\ [][\A id \in DOMAIN jobs' :
             /\ Starts(id) => jobs'[id].progress = 100
             /\ (id \in DOMAIN jobs /\ jobs[id].status = "processing") =>
                    jobs'[id].progress >= jobs[id].progress]_vars

\* a job is half way through its images
C11_Witness ==
    \E id \in DOMAIN jobs :
        /\ jobs[id].status = "processing"
        /\ jobs[id].stage = "image"
        /\ jobs[id].progress > 1500
        /\ jobs[id].progress < 9000

\* the messages of the failures that can end the await at pc
FailureMessages(pc) ==
    CASE pc = "initializeSession" -> {MsgConnectFailed, MsgNoToken}
      [] pc = "fetchPackageDetail" -> {MsgDetailFailed, MsgDetailShape}
      [] pc = "fetchImageBuffer" -> {MsgImageFailed}
      [] pc = "createZipBuffer" -> {MsgArchiveError, MsgUnknownError}
      [] OTHER -> {}

\* C12: a failure of the fetcher (handshake, detail fetch, an image fetch, the
\* archive) moves the running job from processing to failed with error and
\* message both set to the failure's message, or to the generic fallback; the
\* job is not run again and the failure reaches callers only as the job's
\* state; the worker is released. A job's error is non-null if and only if
\* its status is failed.
C12_FailureMarksJobFailed ==
    /\ [](\A id \in DOMAIN jobs :
            /\ IsPresent(jobs[id].error) <=> jobs[id].status = "failed"
            /\ jobs[id].status = "failed" =>
                 /\ jobs[id].message = jobs[id].error
                 /\ processingJob # id
                 /\ \A i \in 1..Len(queue) : queue[i] # id
                 /\ getJob(State, Some(jobs[id].sessionId), id, now).outcome = "return"
                 /\ getJob(State, Some(jobs[id].sessionId), id, now).body[1].error =
                        jobs[id].error)
    /\ [][\A id \in DOMAIN jobs :
             /\ (id \in DOMAIN jobs' /\ jobs[id].status # "failed"
                   /\ jobs'[id].status = "failed") =>
                    /\ jobs[id].status = "processing"
                    /\ run.jobId = id
                    /\ jobs'[id].error \in FailureMessages(run.pc)
                    /\ processingJob' = NoJob
                    /\ scheduled' = scheduled + 1
             /\ (run.jobId = id /\ run'.jobId # id) =>
                    /\ id \in DOMAIN jobs'
                    /\ jobs'[id].status \in {"completed", "failed"}]_vars

\* one job failed with the message of its failure, another with the fallback
C12_Witness ==
    \E a, b \in DOMAIN jobs :
        /\ jobs[a].status = "failed" /\ jobs[a].error = MsgNoToken
        /\ jobs[b].status = "failed" /\ jobs[b].error = MsgUnknownError

\* the state st differs from the current one at most by the removal of lapsed
\* jobs from the job map and from their sessions' order lists
OnlyLapsedRemoved(st) ==
    /\ DOMAIN st.jobs = {id \in DOMAIN jobs : ~Lapsed(jobs[id])}
    /\ \A id \in DOMAIN st.jobs : st.jobs[id] = jobs[id]
    /\ \A sid \in DOMAIN sessionJobs :
         LET kept == SelectSeq(sessionJobs[sid], LAMBDA id : id \in DOMAIN st.jobs)
         IN  IF kept = <<>> THEN sid \notin DOMAIN st.sessionJobs
             ELSE sid \in DOMAIN st.sessionJobs /\ st.sessionJobs[sid] = kept
    /\ DOMAIN st.sessionJobs \subseteq DOMAIN sessionJobs
    /\ st.queue = queue
    /\ st.processingJob = processingJob
    /\ st.scheduled = scheduled
    /\ st.run = run

\* C13: a createJob call rejected with a validation error (status 400) creates
\* no job: a call rejected for its sessionId (missing, empty or blank) changes
\* no state at all, and a call rejected for its URL changes the state only by
\* the removal of lapsed jobs; the queue and the worker are left alone.
C13_RejectedCreateAddsNothing ==
    /\ \A sessionId \in {Undefined, Some(<<>>), Some(Blank)} :
         LET r == createJob(State, UrlB, sessionId, [resize |-> NoResize], nextId, now)
         IN  /\ r.outcome = "throw"
             /\ r.statusCode = 400
             /\ r.body = MsgSessionRequired
             /\ r.st = State
    /\ LET r == createJob(State, UrlBad, Some(S1), [resize |-> NoResize], nextId, now)
       IN  /\ r.outcome = "throw"
           /\ r.statusCode = 400
           /\ r.body = MsgInvalidUrl
           /\ OnlyLapsedRemoved(r.st)
           /\ nextId \notin DOMAIN r.st.jobs

\* a lapsed job is in the map, for a rejected call to find, while another job
\* is running
C13_Witness ==
    /\ \E id \in DOMAIN jobs : Lapsed(jobs[id])
    /\ processingJob # NoJob

\* C14: when scheduled callbacks run and every fetcher request returns or
\* fails, a queued job eventually is completed or failed, or has left the
\* registry; a queued job leaves the queued status only for processing or by
\* removal; the system never rests with a non-empty queue, no running job and
\* no scheduled processQueue callback.
C14_QueuedJobsAreServed ==
    /\ [](queue # <<>> /\ processingJob = NoJob => scheduled > 0)
    /\ [][\A id \in DOMAIN jobs :
            jobs[id].status = "queued" /\ id \in DOMAIN jobs'
                => jobs'[id].status \in {"queued", "processing"}]_vars
    /\ \A id \in 1..MaxLiveJobs :
         (id \in DOMAIN jobs /\ jobs[id].status = "queued")
             ~> (id \notin DOMAIN jobs \/ jobs[id].status \in {"completed", "failed"})

\* a run has just failed with jobs queued behind it: nothing runs, the
\* processQueue callback is pending
C14_Witness ==
    /\ \E id \in DOMAIN jobs : jobs[id].status = "failed"
    /\ Len(queue) >= 2
    /\ processingJob = NoJob
    /\ scheduled > 0

\* C15: jobs enter processing in the order of their creation, whatever their
\* sessions: when a job enters processing, every job created before it that is
\* still in the registry is completed or failed, and no job created after it
\* has yet left the queued status.
C15_ProcessedInCreationOrder ==
    [][\A b \in DOMAIN jobs' :
         Starts(b) =>
            /\ \A a \in DOMAIN jobs' : a < b => jobs'[a].status \in {"completed", "failed"}
            /\ \A c \in DOMAIN jobs' : c > b => jobs'[c].status = "queued"]_vars

\* the second of three jobs runs, taken from a queue that held the second and
\* the third; the first is done; the first two are of different sessions
C15_Witness ==
    /\ DOMAIN jobs = {1, 2, 3}
    /\ jobs[1].status \in {"completed", "failed"}
    /\ jobs[2].status = "processing"
    /\ queue = <<3>>
    /\ jobs[1].sessionId # jobs[2].sessionId

\* the call of fn has been made
Applied(fn) == call.fn = fn /\ IsPresent(call.result)

\* what the resize rule asks for a raw value: none unless the value is a
\* finite number above zero, else the nearest integer (a half goes up) brought
\* into 16..512
C16_Expected(value) ==
    IF value.t # "number" \/ value.v <= 0 THEN Undefined
    ELSE LET nearest == CHOOSE n \in {value.v \div 10, value.v \div 10 + 1} :
                           10 * n - 5 <= value.v /\ value.v < 10 * n + 5
         IN  Some(IF nearest < 16 THEN 16 ELSE IF nearest > 512 THEN 512 ELSE nearest)

\* C16: for every submitted resize value, normalizeResizeOption gives none
\* when the value is not a finite number or is <= 0, and otherwise the value
\* rounded to the nearest integer and clamped into [16, 512] (5 -> 16,
\* 9999 -> 512, 0 -> none); createJob stores exactly that in the job's
\* options.resize, which is therefore none or an integer in 16..512.
C16_ResizeNormalized ==
    Applied("normalizeResizeOption") =>
        LET value == call.args[1]
            stored == Get(call.result)
            created == createJob(State, UrlB, Some(S1), [resize |-> value], nextId, now)
        IN  /\ stored = C16_Expected(value)
            /\ IsPresent(stored) => Get(stored) \in 16..512
            /\ value = [t |-> "number", v |-> 50] => stored = Some(16)
            /\ value = [t |-> "number", v |-> 99990] => stored = Some(512)
            /\ value = [t |-> "number", v |-> 0] => stored = Undefined
            /\ created.outcome = "return"
            /\ created.st.jobs[nextId].options.resize = stored

\* 128.5 was submitted and 129 came out
C16_Witness ==
    /\ Applied("normalizeResizeOption")
    /\ call.args[1] = [t |-> "number", v |-> 1285]
    /\ Get(call.result) = Some(129)

\* the callbacks of a whole run over a package of n items: stage and progress
\* (in ten-thousandths), the image callbacks in item order
C17_WholeRun(n) ==
    << [stage |-> "session", progress |-> 500], [stage |-> "detail", progress |-> 1500] >>
    \o [i \in 1..n |-> [stage |-> "image", progress |-> 1500 + (i * 7500) \div n]]
    \o << [stage |-> "archive", progress |-> 9500], [stage |-> "complete", progress |-> 10000] >>

\* the number of items of the package a job asks for
C17_ItemCount(job) == Len(SiteDetail(job.packageId).detail)

C17_IsPrefix(s, whole) == Len(s) <= Len(whole) /\ s = SubSeq(whole, 1, Len(s))

\* C17: the progress callbacks of one run of the fetcher are, in order,
\* session (0.05), detail (0.15), one image callback per item in item order,
\* archive (0.95), complete (1.0): what a run has emitted so far is always a
\* prefix of that sequence, a run that completes has emitted all of it, and a
\* run that fails has emitted a proper prefix without `complete`.
C17_CallbacksInOrder ==
    /\ [](run.jobId # NoJob =>
            C17_IsPrefix(run.emitted, C17_WholeRun(C17_ItemCount(jobs[run.jobId]))))
    /\ [][\A id \in DOMAIN jobs :
            jobs[id].status = "processing" /\ id \in DOMAIN jobs' =>
              LET whole == C17_WholeRun(C17_ItemCount(jobs[id])) IN
              /\ jobs'[id].status = "completed" => run'.emitted = whole
              /\ jobs'[id].status = "failed" =>
                    /\ C17_IsPrefix(run'.emitted, whole)
                    /\ Len(run'.emitted) < Len(whole) - 1
                    /\ \A i \in 1..Len(run'.emitted) : run'.emitted[i].stage # "complete"
              /\ jobs'[id].status = "processing" /\ run'.emitted # run.emitted =>
                    /\ Len(run'.emitted) = Len(run.emitted) + 1
                    /\ jobs'[id].stage = run'.emitted[Len(run'.emitted)].stage
                    /\ jobs'[id].progress = run'.emitted[Len(run'.emitted)].progress]_vars

\* a run over a package of two items has completed after a run that failed in
\* the middle of its images
C17_Witness ==
    /\ \E id \in DOMAIN jobs : jobs[id].status = "failed" /\ jobs[id].stage = "failed"
                               /\ jobs[id].progress > 1500
    /\ \E id \in DOMAIN jobs : jobs[id].status = "completed" /\ C17_ItemCount(jobs[id]) = 2
                               /\ run.emitted = C17_WholeRun(2)

\* the label split at its space: the number as printed and the unit
C18_Number(label) == SubSeq(label, 1, FirstIndexIn(label, {" "}, 1) - 1)
C18_Unit(label) == SubSeq(label, FirstIndexIn(label, {" "}, 1) + 1, Len(label))

\* the digits printed after the decimal point, 0 when there is no point
C18_Decimals(label) ==
    LET number == C18_Number(label)
        point == FirstIndexIn(number, {"."}, 1)
    IN  IF point > Len(number) THEN 0 ELSE Len(number) - point

\* the number a string of digits (with at most one point, which is dropped) spells
RECURSIVE C18_Value(_)
C18_Value(digits) ==
    IF digits = <<>> THEN 0
    ELSE IF digits[Len(digits)] = "." THEN C18_Value(SubSeq(digits, 1, Len(digits) - 1))
    ELSE 10 * C18_Value(SubSeq(digits, 1, Len(digits) - 1))
         + (CHOOSE d \in 0..9 : DigitChar(d) = digits[Len(digits)])

\* the unit a byte count is scaled to, and the size of that unit in bytes
C18_UnitSize(bytes) ==
    IF bytes < 1024 THEN 1
    ELSE IF bytes < 1024 * 1024 THEN 1024
    ELSE IF bytes < 1024 * 1024 * 1024 THEN 1024 * 1024
    ELSE 1024 * 1024 * 1024

C18_UnitName(size) ==
    IF size = 1 THEN <<"B">>
    ELSE IF size = 1024 THEN <<"K", "B">>
    ELSE IF size = 1024 * 1024 THEN <<"M", "B">>
    ELSE <<"G", "B">>

C19_Expected(title, packageId) ==
    (IF IsPresent(title) /\ Get(title) # <<>> THEN sanitizeFilename(title, Dccon) ELSE Dccon)
    \o (IF IsPresent(packageId) /\ Get(packageId) # <<>> THEN <<"_">> \o Get(packageId) ELSE <<>>)
    \o <<".", "z", "i", "p">>

\* C19: buildArchiveFilename(title, packageId) is sanitize(title) when the
\* title is present, and "dccon" when the title is absent or empty, followed
\* by "_" + packageId when packageId is present, followed by ".zip";
\* ("My:Pack*", "42") gives "My Pack_42.zip" and an absent title with
\* packageId "42" gives "dccon_42.zip".
C19_ArchiveFilename ==
    Applied("buildArchiveFilename") =>
        LET title == call.args[1]
            packageId == call.args[2]
            filename == Get(call.result)
        IN  /\ filename = C19_Expected(title, packageId)
            /\ title = Some(<<"M", "y", ":", "P", "a", "c", "k", "*">>) /\ packageId = Some(<<"4", "2">>)
                 => filename = <<"M", "y", " ", "P", "a", "c", "k", "_", "4", "2", ".", "z", "i", "p">>
            /\ title = Undefined /\ packageId = Some(<<"4", "2">>)
                 => filename = <<"d", "c", "c", "o", "n", "_", "4", "2", ".", "z", "i", "p">>

\* the titles that are present and keep a character when sanitized come out
\* as the claim says
C19_PresentTitles ==
    Applied("buildArchiveFilename") /\ IsPresent(call.args[1])
    /\ sanitizeFilename(call.args[1], <<>>) # <<>>
        => Get(call.result) = C19_Expected(call.args[1], call.args[2])

\* what the priority order gives for a text made of a host, a path, a query
\* and a fragment: the idx=5 pair, else the fragment 456, else the id
\* parameter 77, else the last path segment of three or more digits, else the
\* first bare run of digits (only the fragment 4567x holds one, and its last
\* digit is given back because a letter follows)
C20_ByPriority(path, query, fragment) ==
    IF query = <<"?", "i", "d", "x", "=", "5">> THEN Some(<<"5">>)
    ELSE IF fragment = <<"#", "4", "5", "6">> THEN Some(<<"4", "5", "6">>)
    ELSE IF query = <<"?", "i", "d", "=", "7", "7">> THEN Some(<<"7", "7">>)
    ELSE IF path = <<"/", "1", "1", "1">> THEN Some(<<"1", "1", "1">>)
    ELSE IF path = <<"/", "1", "1", "1", "/", "2", "2", "2">> THEN Some(<<"2", "2", "2">>)
    ELSE IF path = <<"/", "3", "3", "3", "/", "x">> THEN Some(<<"3", "3", "3">>)
    ELSE IF path = <<"/", "1", "2", "3", "4", "5", "x", "/", "6", "7", "8">> THEN Some(<<"6", "7", "8">>)
    ELSE IF fragment = <<"#", "4", "5", "6", "7", "x">> THEN Some(<<"4", "5", "6">>)
    ELSE Undefined

\* single texts and the package ID each holds
C20_Examples ==
    { << <<"h", "t", "t", "p", "s", ":", "/", "/", "d", "c", "c", "o", "n", ".", "d", "c", "i", "n", "s", "i", "d", "e", ".", "c", "o", "m", "/", "#", "1", "2", "3", "4", "5", "6">>, Some(<<"1", "2", "3", "4", "5", "6">>) >>,
       << <<"h", "t", "t", "p", "s", ":", "/", "/", "d", "c", "c", "o", "n", ".", "d", "c", "i", "n", "s", "i", "d", "e", ".", "c", "o", "m", "/", "i", "n", "d", "e", "x", "/", "p", "a", "c", "k", "a", "g", "e", "_", "d", "e", "t", "a", "i", "l", "?", "p", "a", "c", "k", "a", "g", "e", "_", "i", "d", "x", "=", "9", "8", "7", "6", "5">>, Some(<<"9", "8", "7", "6", "5">>) >>,
       << <<"n", "o", " ", "d", "i", "g", "i", "t", "s", " ", "h", "e", "r", "e">>, Undefined >>,
       << <<"p", "a", "c", "k", " ", "4", "5", "6", "7">>, Some(<<"4", "5", "6", "7">>) >>,
       << <<"h", "t", "t", "p", "x", "/", "5", "6", "7", "8">>, Some(<<"5", "6", "7", "8">>) >>,
       << <<"a", ".", "c", "o", "/", "a", "b", "1", "2", "3", "4">>, Some(<<"1", "2", "3", "4">>) >>,
       << <<"a", ".", "c", "o", "/", "1", "2">>, Undefined >>,
       << <<"N", "O", "=", "1", "2">>, Some(<<"1", "2">>) >>,
       << <<" ", "a", ".", "c", "o", "/", "#", "0", "0", "7", "8", "9", " ">>, Some(<<"0", "0", "7", "8", "9">>) >>,
       << <<"a", ".", "c", "o", "/", "x", "?", "n", "o", "=", "&", "i", "d", "=", "3", "1">>, Some(<<"3", "1">>) >>,
       << <<>>, Undefined >> }

\* C20: extractPackageId resolves in a fixed priority order: a key=value match
\* for package_idx/package_id/idx/no anywhere in the text, then a URL fragment
\* of 3+ digits, then the known query parameters, then a 3+-digit path segment
\* (the last one first), then the bare-digits fallback; it gives none when
\* nothing matches and every other result is a non-empty string of digits
\* ("https://dccon.dcinside.com/#123456" -> "123456",
\* "...package_detail?package_idx=98765" -> "98765", "no digits here" -> none).
C20_PriorityOrder ==
    Applied("extractPackageId") =>
        LET args == call.args
            packageId == Get(call.result)
        IN  /\ IsPresent(packageId) => AllDigitsAtLeast(Get(packageId), 1)
            /\ args[1] \in {<<"a", ".", "c", "o">>, <<"h", "t", "t", "p", ":", "/", "/", "a", ".", "c", "o">>}
                 => packageId = C20_ByPriority(args[2], args[3], args[4])
            /\ \A example \in C20_Examples : args[1] = example[1] => packageId = example[2]

\* the text a.co/111/222?id=77#456, which holds a fragment, a query parameter
\* and two path segments, was resolved to its fragment
C20_Witness ==
    /\ Applied("extractPackageId")
    /\ call.args = << <<"a", ".", "c", "o">>, <<"/", "1", "1", "1", "/", "2", "2", "2">>, <<"?", "i", "d", "=", "7", "7">>, <<"#", "4", "5", "6">> >>
    /\ Get(call.result) = Some(<<"4", "5", "6">>)

\* the text extractPackageId was called with, trimmed
C21_Text == Trim(call.args[1] \o call.args[2] \o call.args[3] \o call.args[4])

\* the starts of the runs of digits of s taken whole (no digit before) that
\* have three or more digits and no letter right after
C21_BareRuns(s) ==
    {i \in 1..Len(s) :
        /\ s[i] \in Digits
        /\ i = 1 \/ s[i - 1] \notin Digits
        /\ DigitRun(s, i) >= 3
        /\ i + DigitRun(s, i) > Len(s) \/ s[i + DigitRun(s, i)] \notin Letters}

\* the last such run, in full
C21_LastBareRun(s) ==
    IF C21_BareRuns(s) = {} THEN Undefined
    ELSE LET i == CHOOSE i \in C21_BareRuns(s) : \A j \in C21_BareRuns(s) : j <= i
         IN  Some(SubSeq(s, i, i + DigitRun(s, i) - 1))

\* C21: when neither the key=value rule nor the URL rules produce a result,
\* extractPackageId returns the last run of 3 or more digits of the input
\* that is not immediately followed by a letter, in full.
C21_FallbackIsLastBareRun ==
    Applied("extractPackageId") /\ C21_Text # <<>>
    /\ ~IsPresent(QueryMatch(C21_Text)) /\ ~IsPresent(UrlMatch(C21_Text))
        => Get(call.result) = C21_LastBareRun(C21_Text)

\* the detail entry a job's item k was made from
C22_Entry(job, k) == SiteDetail(job.packageId).detail[k]

\* the item holds what was downloaded for its entry: the bytes as served, the
\* entry's extension, the response's MIME type
C22_AsDownloaded(item, entry) ==
    /\ item.buffer = [path |-> entry.path, resize |-> 0]
    /\ item.ext = entry.ext
    /\ item.mimeType = Or(SiteImage(entry.path).contentType, "image/png")
    /\ item.size = SiteImage(entry.path).bytes

\* C22: a resize failure never fails the job: however the resize of an item
\* settles, the job stays in processing, the item is pushed (when not resized:
\* with its original buffer, extension and MIME type and resized = false) and
\* the loop goes on to the next item or to the archive; the items of a
\* completed job that are not resized are as downloaded.
C22_ResizeFailureIsNotFatal ==
    /\ [][run.pc = "applyResize" /\ run' # run =>
            LET job == jobs[run.jobId]
                pushed == run'.items[Len(run'.items)]
            IN  /\ run.jobId \in DOMAIN jobs'
                /\ jobs'[run.jobId].status = "processing"
                /\ run'.jobId = run.jobId
                /\ run'.items = Append(run.items, pushed)
                /\ run'.index = run.index + 1
                /\ run'.pc \in {"fetchImageBuffer", "createZipBuffer"}
                /\ pushed.resized \/ C22_AsDownloaded(pushed, C22_Entry(job, run.index + 1))]_vars
    /\ [](\A id \in DOMAIN jobs :
            jobs[id].status = "completed" =>
               \A k \in 1..Len(jobs[id].items) :
                  jobs[id].items[k].resized
                  \/ C22_AsDownloaded(jobs[id].items[k], C22_Entry(jobs[id], k)))

\* a job asked for a resize, the resize of its first item (a png) failed, and
\* the job completed with that item unresized and its other item in place
C22_Witness ==
    \E id \in DOMAIN jobs :
        /\ jobs[id].status = "completed"
        /\ IsPresent(jobs[id].options.resize)
        /\ Len(jobs[id].items) = 2
        /\ ~jobs[id].items[1].resized
        /\ canResize(jobs[id].items[1].ext, jobs[id].items[1].mimeType)

\* C23: with a clock that does not go back, every job's timestamps are
\* ordered createdAt <= startedAt <= completedAt <= updatedAt wherever they
\* are present; startedAt is present exactly when the job has left queued and
\* completedAt exactly when it is completed; updatedAt never decreases and
\* createdAt, startedAt and completedAt, once set, stay as they are.
C23_TimestampsOrdered ==
    /\ [](\A id \in DOMAIN jobs :
            LET job == jobs[id] IN
            /\ job.createdAt <= job.updatedAt
            /\ job.updatedAt <= now
            /\ IsPresent(job.startedAt) <=> job.status # "queued"
            /\ IsPresent(job.completedAt) <=> job.status = "completed"
            /\ IsPresent(job.startedAt) =>
                  job.createdAt <= Get(job.startedAt) /\ Get(job.startedAt) <= job.updatedAt
            /\ IsPresent(job.completedAt) =>
                  Get(job.startedAt) <= Get(job.completedAt)
                  /\ Get(job.completedAt) <= job.updatedAt)
    /\ [][\A id \in DOMAIN jobs \cap DOMAIN jobs' :
            /\ jobs'[id].updatedAt >= jobs[id].updatedAt
            /\ jobs'[id].createdAt = jobs[id].createdAt
            /\ IsPresent(jobs[id].startedAt) => jobs'[id].startedAt = jobs[id].startedAt
            /\ IsPresent(jobs[id].completedAt) => jobs'[id].completedAt = jobs[id].completedAt
            /\ jobs'[id].status # jobs[id].status => jobs'[id].updatedAt = now]_vars

\* a job waited in the queue while the clock advanced, then ran to completion
C23_Witness ==
    \E id \in DOMAIN jobs :
        /\ jobs[id].status = "completed"
        /\ jobs[id].createdAt < Get(jobs[id].startedAt)
        /\ Get(jobs[id].completedAt) = jobs[id].updatedAt

\* the identifier a source yields: its string, or the first of its strings,
\* trimmed; none when the source is absent or that string is empty after trim
C24_Yields(value) ==
    IF value.v = <<>> \/ Trim(value.v[1]) = <<>> THEN Undefined ELSE Some(Trim(value.v[1]))

\* the routes answer 400 when !sessionId
C24_Rejected(sessionId) == ~IsPresent(sessionId) \/ Get(sessionId) = <<>>

\* C24: the session identifier is the trimmed x-session-id header value (the
\* first element if several), otherwise the trimmed session_id query
\* parameter (the first element if several); the request is rejected with 400
\* for a missing session only when neither source yields a non-empty
\* identifier.
C24_HeaderThenQuery ==
    Applied("resolveSessionId") =>
        LET header == C24_Yields(call.args[1])
            query == C24_Yields(call.args[2])
            sessionId == Get(call.result)
        IN  /\ C24_Rejected(sessionId) <=> ~IsPresent(header) /\ ~IsPresent(query)
            /\ ~C24_Rejected(sessionId) =>
                  sessionId = IF IsPresent(header) THEN header ELSE query

\* whenever the header yields an identifier it is the one resolved, and when
\* the header is absent the query parameter decides
C24_HeaderWinsWhenPresent ==
    Applied("resolveSessionId") =>
        LET header == C24_Yields(call.args[1])
            query == C24_Yields(call.args[2])
            sessionId == Get(call.result)
        IN  /\ IsPresent(header) => sessionId = header
            /\ call.args[1].t = "absent" =>
                  /\ IsPresent(query) => sessionId = query
                  /\ ~IsPresent(query) => C24_Rejected(sessionId)

\* a session's order list, empty when the registry has no entry for it
C25_Order(orders, sid) == IF sid \in DOMAIN orders THEN orders[sid] ELSE <<>>

\* C25: in a createJob step for session S (no job has lapsed), the jobs that
\* leave the map all belong to S, none of them is processing, and they are
\* the oldest jobs of S's order, removed from the front; the job being
\* created stays, the order lists of other sessions are untouched; no more
\* jobs are removed than the cap asks for, and S is left over the cap only
\* when its oldest job is processing.
C25_CapEvictsOldestOfSession ==
    [][nextId' = nextId + 1 =>
          /\ nextId \in DOMAIN jobs'
          /\ LET S == jobs'[nextId].sessionId
                 before == C25_Order(sessionJobs, S)
                 after == C25_Order(sessionJobs', S)
                 removed == DOMAIN jobs \ DOMAIN jobs'
                 count == Cardinality(removed)
             IN  /\ \A id \in removed :
                       jobs[id].sessionId = S /\ jobs[id].status # "processing"
                 /\ count <= Len(before)
                 /\ removed = {before[i] : i \in 1..count}
                 /\ after = SubSeq(before, count + 1, Len(before)) \o <<nextId>>
                 /\ \A other \in DOMAIN sessionJobs :
                       other # S => C25_Order(sessionJobs', other) = sessionJobs[other]
                 /\ count > 0 => Len(after) >= MAX_STORED_JOBS_PER_SESSION
                 /\ Len(after) > MAX_STORED_JOBS_PER_SESSION =>
                       jobs[before[count + 1]].status = "processing"]_vars

\* the job of the other session runs, the oldest job of session S1 was
\* evicted from the queue by S1's sixteenth job, and S1 is at the cap
C25_Witness ==
    /\ 1 \in DOMAIN jobs /\ jobs[1].sessionId = S2 /\ jobs[1].status = "processing"
    /\ 2 \notin DOMAIN jobs
    /\ MaxJobsCap \in DOMAIN jobs
    /\ Len(sessionJobs[S1]) = MAX_STORED_JOBS_PER_SESSION
    /\ Head(queue) = 3

\* the moments a cleanup is looked at: now, and for every job the last
\* moment within the TTL of its updatedAt and the first moment past it
C26_Moments ==
    {now} \cup {jobs[id].updatedAt + ThirtyMinutes : id \in DOMAIN jobs}
          \cup {jobs[id].updatedAt + ThirtyMinutes + 1 : id \in DOMAIN jobs}

\* C26: a TTL cleanup at any moment removes exactly the jobs that are
\* completed or failed and whose updatedAt is strictly more than 30 minutes
\* before that moment: a queued or processing job is never removed by it
\* however old, nor a terminal job within the TTL; and where no session is
\* over the cap, no job leaves the map unless it has so lapsed.
C26_CleanupRemovesOnlyLapsed ==
    /\ [](\A t \in C26_Moments :
            LET after == cleanupExpiredJobs(State, t) IN
            /\ DOMAIN after.jobs \subseteq DOMAIN jobs
            /\ \A id \in DOMAIN jobs :
                  id \notin DOMAIN after.jobs <=>
                      /\ jobs[id].status \in {"completed", "failed"}
                      /\ t - jobs[id].updatedAt > ThirtyMinutes)
    /\ [][\A id \in DOMAIN jobs : id \notin DOMAIN jobs' => Lapsed(jobs[id])]_vars

\* one job has lapsed and is about to be removed, another is as old and still
\* runs or waits
C26_Witness ==
    /\ \E id \in DOMAIN jobs : Lapsed(jobs[id])
    /\ \E id \in DOMAIN jobs :
          /\ jobs[id].status \in {"queued", "processing"}
          /\ now - jobs[id].updatedAt > ThirtyMinutes

\* C27: a completed job has one item per entry of the package's detail list,
\* in the list's order (while the job runs, the item being fetched is always
\* the one after the items already pushed); its previews are the first
\* min(4, n) items in that order; its archive has one entry per item, in the
\* same order.
C27_ItemsPreviewsArchive ==
    /\ run.pc \in {"fetchImageBuffer", "applyResize"} =>
          /\ Len(run.items) = run.index
          /\ run.index < Len(Get(run.detail).detail)
          /\ \A k \in 1..Len(run.items) : run.items[k].idx = Get(run.detail).detail[k].idx
    /\ \A id \in DOMAIN jobs :
          jobs[id].status = "completed" =>
             LET job == jobs[id]
                 detail == SiteDetail(job.packageId).detail
                 n == Len(detail)
                 entries == Get(job.zip).buffer.entries
             IN  /\ Len(job.items) = n
                 /\ \A k \in 1..n : /\ job.items[k].idx = detail[k].idx
                                    /\ job.items[k].path = detail[k].path
                                    /\ job.items[k].title = detail[k].title
                 /\ Len(job.previews) = (IF n < 4 THEN n ELSE 4)
                 /\ \A k \in 1..Len(job.previews) :
                       /\ job.previews[k].idx = detail[k].idx
                       /\ job.previews[k].mimeType = job.items[k].mimeType
                       /\ job.previews[k].dataUrl.base64 = job.items[k].buffer
                 /\ Len(entries) = n
                 /\ \A k \in 1..n : entries[k].data = job.items[k].buffer

\* a package of five items was downloaded: five items, four previews
C27_Witness ==
    \E id \in DOMAIN jobs :
        /\ jobs[id].status = "completed"
        /\ Len(jobs[id].items) = 5
        /\ Len(jobs[id].previews) = 4
        /\ jobs[id].items[1].sort > jobs[id].items[5].sort

\* C28: for a package of n >= 1 items the progress reported after item k is
\* 0.15 + 0.75 * k / n: above the report before it, above the detail stage's
\* 0.15, exactly 0.90 after the last item and below the archive stage's 0.95;
\* for n = 0 no image callback fires and the report after detail (0.15) is
\* archive (0.95).
C28_ImageProgressInterpolates ==
    [][\A id \in DOMAIN jobs :
         (jobs[id].status = "processing" /\ id \in DOMAIN jobs'
            /\ Len(run'.emitted) > Len(run.emitted)) =>
           LET n == C17_ItemCount(jobs[id])
               last == run'.emitted[Len(run'.emitted)]
               k == Len(run'.items)
           IN  /\ last.stage = "image" =>
                     /\ n >= 1
                     /\ k \in 1..n
                     /\ k = Len(run.items) + 1
                     /\ (last.progress - 1500) * n = 7500 * k
                     /\ last.progress > run.emitted[Len(run.emitted)].progress
                     /\ last.progress > 1500
                     /\ last.progress < 9500
                     /\ (k = n) <=> (last.progress = 9000)
                     /\ jobs'[id].progress = last.progress
               /\ n = 0 => last.stage # "image"
               /\ (n = 0 /\ jobs'[id].status = "completed") =>
                     run'.emitted = << [stage |-> "session", progress |-> 500],
                                       [stage |-> "detail", progress |-> 1500],
                                       [stage |-> "archive", progress |-> 9500],
                                       [stage |-> "complete", progress |-> 10000] >>]_vars

\* an empty package was downloaded, and a package of five items is at its
\* third image (0.15 + 0.75 * 3 / 5 = 0.60)
C28_Witness ==
    /\ \E id \in DOMAIN jobs : /\ jobs[id].status = "completed"
                               /\ C17_ItemCount(jobs[id]) = 0
                               /\ jobs[id].items = <<>>
    /\ \E id \in DOMAIN jobs : /\ jobs[id].status = "processing"
                               /\ C17_ItemCount(jobs[id]) = 5
                               /\ jobs[id].stage = "image"
                               /\ jobs[id].progress = 6000

\* the entry's format is resizable: its extension, whatever its case, or the
\* MIME type of its download names png, jpeg, jpg or webp
C29_Resizable(entry) ==
    \/ entry.ext \in {"png", "jpeg", "jpg", "webp", "PNG", "JPEG", "JPG", "WEBP"}
    \/ Or(SiteImage(entry.path).contentType, "image/png")
          \in {"image/png", "image/jpeg", "image/webp"}

\* a positive target size was requested for the job
C29_SizeRequested(job) == IsPresent(job.options.resize) /\ Get(job.options.resize) > 0

\* item k of the job is resized only on request and for a resizable format,
\* and is as downloaded otherwise
C29_ItemOk(job, item, k) ==
    LET entry == C22_Entry(job, k) IN
    /\ item.resized => C29_SizeRequested(job) /\ C29_Resizable(entry)
    /\ ~(C29_SizeRequested(job) /\ C29_Resizable(entry)) =>
          ~item.resized /\ C22_AsDownloaded(item, entry)

\* C29: an item is resized only if a positive target size was requested for
\* the job and the item's format is resizable by extension or MIME type; with
\* no requested size, or a non-resizable format, the item's buffer, extension
\* and MIME type are the downloaded ones and no resize is awaited for it.
C29_ResizeOnlyOnRequestAndFormat ==
    /\ run.jobId # NoJob =>
          /\ \A k \in 1..Len(run.items) : C29_ItemOk(jobs[run.jobId], run.items[k], k)
          /\ run.pc = "applyResize" =>
                /\ C29_SizeRequested(jobs[run.jobId])
                /\ C29_Resizable(C22_Entry(jobs[run.jobId], run.index + 1))
    /\ \A id \in DOMAIN jobs :
          jobs[id].status = "completed" =>
             \A k \in 1..Len(jobs[id].items) : C29_ItemOk(jobs[id], jobs[id].items[k], k)

\* a job with a requested size completed with its first item, resizable by
\* its MIME type only, resized and its gif items as downloaded; a job without
\* a requested size completed with a png as downloaded
C29_Witness ==
    /\ \E id \in DOMAIN jobs :
          /\ jobs[id].status = "completed"
          /\ C29_SizeRequested(jobs[id])
          /\ Len(jobs[id].items) = 5
          /\ jobs[id].items[1].resized
          /\ C22_Entry(jobs[id], 1).ext = "gif"
          /\ ~jobs[id].items[2].resized
    /\ \E id \in DOMAIN jobs :
          /\ jobs[id].status = "completed"
          /\ ~C29_SizeRequested(jobs[id])
          /\ ~jobs[id].items[1].resized
          /\ C22_Entry(jobs[id], 1).ext = "png"

\* the number of places of the order list that hold jobId
C30_Occurrences(order, jobId) == Cardinality({i \in 1..Len(order) : order[i] = jobId})

\* the session registry and the job map of st agree
C30_Consistent(st) ==
    /\ \A id \in DOMAIN st.jobs :
          /\ st.jobs[id].sessionId \in DOMAIN st.sessionJobs
          /\ \A sid \in DOMAIN st.sessionJobs :
                C30_Occurrences(st.sessionJobs[sid], id) =
                    (IF sid = st.jobs[id].sessionId THEN 1 ELSE 0)
    /\ \A sid \in DOMAIN st.sessionJobs :
          /\ st.sessionJobs[sid] # <<>>
          /\ \A i \in 1..Len(st.sessionJobs[sid]) : st.sessionJobs[sid][i] \in DOMAIN st.jobs

\* C30: the session registry and the job map stay consistent: each job of the
\* map is exactly once in the order list of its own session and in no other
\* list, every ID of an order list is a job of the map, and no session entry
\* has an empty list; the same holds after the cleanup that opens listJobs, so
\* the pruning loop of listJobs removes nothing.
C30_RegistryConsistent ==
    /\ C30_Consistent(State)
    /\ LET cleaned == cleanupExpiredJobs(State, now) IN
       /\ C30_Consistent(cleaned)
       /\ \A sid \in DOMAIN cleaned.sessionJobs :
             PruneOrder(cleaned.sessionJobs[sid], cleaned.jobs) = cleaned.sessionJobs[sid]

\* the only job of one session was removed and the session's entry with it,
\* while the job of another session stays listed
C30_Witness ==
    /\ nextId = 3
    /\ DOMAIN jobs = {2}
    /\ jobs[2].sessionId = S2
    /\ DOMAIN sessionJobs = {S2}
    /\ sessionJobs[S2] = <<2>>

\* C31: the pending queue holds exactly the IDs of the queued jobs, each once
\* and in creation order; a queued job that is removed leaves the queue with
\* it, and a job leaves the queue at the step at which it becomes processing
\* (it was the first of the queue's jobs still retained). So whenever the worker is idle and the queue is not
\* empty, processQueue starts the head of the queue: its skip branch is never
\* taken.
C31_QueueIsQueuedJobs ==
    /\ [](/\ \A i \in 1..Len(queue) :
               /\ queue[i] \in DOMAIN jobs
               /\ jobs[queue[i]].status = "queued"
               /\ i > 1 => /\ queue[i - 1] < queue[i]
                           /\ jobs[queue[i - 1]].createdAt <= jobs[queue[i]].createdAt
          /\ \A id \in DOMAIN jobs :
               jobs[id].status = "queued" => C30_Occurrences(queue, id) = 1
          /\ (processingJob = NoJob /\ queue # <<>>) =>
               LET after == processQueue(State, now) IN
               /\ after.processingJob = Head(queue)
               /\ after.jobs[Head(queue)].status = "processing"
               /\ after.queue = Tail(queue)
               /\ after.scheduled = scheduled)
    /\ [][\A id \in DOMAIN jobs :
            jobs[id].status = "queued" =>
              /\ id \notin DOMAIN jobs' => C30_Occurrences(queue', id) = 0
              /\ (id \in DOMAIN jobs' /\ jobs'[id].status # "queued") =>
                    /\ jobs'[id].status = "processing"
                    /\ processingJob' = id
                    /\ \A i \in 1..Len(queue) : queue[i] < id => queue[i] \notin DOMAIN jobs'
                    /\ C30_Occurrences(queue', id) = 0]_vars

\* while the job of another session runs, the oldest waiting job of the
\* session was evicted out of the middle of the pending work: the fifteen
\* jobs that wait after it are the queue
C31_Witness ==
    /\ 1 \in DOMAIN jobs /\ jobs[1].status = "processing"
    /\ 2 \notin DOMAIN jobs
    /\ queue = [i \in 1..15 |-> i + 2]

\* C32: the running marker and the job statuses agree: a job with status
\* processing is the job the marker names; a set marker names a job of the
\* map, which is processing and is the job being executed; the step that ends
\* an execution, with success or with failure, clears the marker, so the
\* marker is never set while no job executes.
C32_MarkerAgreesWithStatuses ==
    /\ [](/\ \A id \in DOMAIN jobs : jobs[id].status = "processing" => processingJob = id
          /\ processingJob # NoJob =>
               /\ processingJob \in DOMAIN jobs
               /\ jobs[processingJob].status = "processing"
               /\ run.jobId = processingJob
               /\ run.pc \in Awaits
          /\ processingJob = NoJob => run.jobId = NoJob /\ run.pc \notin Awaits)
    /\ [][\A id \in DOMAIN jobs :
            (jobs[id].status = "processing" /\ id \in DOMAIN jobs'
               /\ jobs'[id].status # "processing") =>
                  /\ jobs'[id].status \in {"completed", "failed"}
                  /\ processingJob = id
                  /\ processingJob' = NoJob]_vars

\* the marker was cleared after a failed execution and after a successful
\* one: both jobs are finished and no job is marked running
C32_Witness ==
    /\ \E id \in DOMAIN jobs : jobs[id].status = "failed" /\ IsPresent(jobs[id].startedAt)
    /\ \E id \in DOMAIN jobs : jobs[id].status = "completed"
    /\ processingJob = NoJob
    /\ queue = <<>>

\* a completed or failed job whose last update is more than thirty minutes
\* before t
C33_ExpiredAt(job, t) ==
    job.status \in {"completed", "failed"} /\ t - job.updatedAt > ThirtyMinutes

\* st is the current state less the jobs expired at t: the jobs kept have all
\* their fields, the order lists lose the removed IDs only, the queue, the
\* running marker, the scheduled callbacks and the run are as they are
C33_OnlyExpiredRemoved(st, t) ==
    /\ DOMAIN st.jobs = {id \in DOMAIN jobs : ~C33_ExpiredAt(jobs[id], t)}
    /\ \A id \in DOMAIN st.jobs : st.jobs[id] = jobs[id]
    /\ DOMAIN st.sessionJobs \subseteq DOMAIN sessionJobs
    /\ \A sid \in DOMAIN sessionJobs :
         LET kept == SelectSeq(sessionJobs[sid], LAMBDA id : id \in DOMAIN st.jobs)
         IN  IF kept = <<>> THEN sid \notin DOMAIN st.sessionJobs
             ELSE sid \in DOMAIN st.sessionJobs /\ st.sessionJobs[sid] = kept
    /\ st.queue = queue
    /\ st.processingJob = processingJob
    /\ st.scheduled = scheduled
    /\ st.run = run

\* the moments from now on at which a read is looked at
C33_Moments == {t \in C26_Moments : t >= now}

\* what the three reads leave behind when session caller asks for jobId at t
C33_Reads(caller, jobId, t) ==
    {listJobs(State, caller, t).st, getJob(State, caller, jobId, t).st,
     getJobDownloadData(State, caller, jobId, t).st}

\* C33: listJobs, getJob and getJobDownloadData change no field of a retained
\* job, nor the pending queue, nor the running marker: all they do to the
\* state is remove the terminal jobs whose TTL has run out (nothing at all for
\* a rejected session ID). A finished job is never changed by any step, so
\* reads do not move its updatedAt, and a read made more than 30 minutes after
\* it finished no longer finds it.
C33_ReadsOnlyExpire ==
    /\ [](\A t \in C33_Moments : \A jobId \in 1..nextId :
            /\ \A caller \in {Some(S1), Some(S2), Some(PaddedS1)} :
                 \A st \in C33_Reads(caller, jobId, t) : C33_OnlyExpiredRemoved(st, t)
            /\ \A caller \in {Undefined, Some(Blank)} : C33_Reads(caller, jobId, t) = {State})
    /\ [][\A id \in DOMAIN jobs :
            /\ (jobs[id].status \in {"completed", "failed"} /\ id \in DOMAIN jobs') =>
                  jobs'[id] = jobs[id]
            /\ (jobs[id].status \in {"completed", "failed"} /\ id \notin DOMAIN jobs') =>
                  now - jobs[id].updatedAt > ThirtyMinutes
            /\ (jobs[id].status = "processing" /\ id \in DOMAIN jobs'
                  /\ jobs'[id].status # "processing") => jobs'[id].updatedAt = now]_vars

\* past the TTL of a job that is gone, a job that finished later is retained
\* with the updatedAt of its finish, whatever reads are made
C33_Witness ==
    /\ now > ThirtyMinutes
    /\ 1 \notin DOMAIN jobs
    /\ 2 \in DOMAIN jobs
    /\ jobs[2].status = "completed"
    /\ jobs[2].updatedAt = now
    /\ getJobDownloadData(State, Some(S1), 2, now).outcome = "return"

\* the fields that identify a job and its request are the same in a and b
C34_SameIdentity(a, b) ==
    /\ a.id = b.id
    /\ a.sessionId = b.sessionId
    /\ a.url = b.url
    /\ a.packageId = b.packageId
    /\ a.options.resize = b.options.resize
    /\ a.createdAt = b.createdAt

====
